---- MODULE Spec2Model ----
(***************************************************************************)
(* Order-checkout engine of tiendaVideoJuegos-backend.                     *)
(*                                                                         *)
(* The module holds several specifications over one set of variables:      *)
(*   SpecOrder   the Order entity (order.entity.ts) driven through its     *)
(*               public API;                                               *)
(*   SpecFold    the discount engine of CheckoutFacade: the rule list and  *)
(*               the recursive fold;                                       *)
(*   SpecStatus  concurrent OrderService.updateStatus calls against the    *)
(*               pedidos table;                                            *)
(*   Spec        server start-up followed by concurrent                    *)
(*               CheckoutFacade.process calls.                             *)
(* Each specification moves its own variables and leaves the others at     *)
(* their initial values.                                                   *)
(*                                                                         *)
(* Amounts of money are JavaScript numbers in the source.  They are        *)
(* modelled as exact rationals <<n, d>> in lowest terms with d > 0;        *)
(* floating-point rounding is not modelled.  Timestamps (new Date()) of    *)
(* history entries and e-mail tasks are left out.                          *)
(***************************************************************************)
EXTENDS Integers, Sequences, FiniteSets, TLC

None == "none"

VARIABLES
    ent, entOp,                 \* SpecOrder: an Order entity and the last call on it
    fIn, fOut,                  \* SpecFold: input and result of the discount fold
    pedidosEstado, rowLock,     \* SpecStatus: pedidos.estado per row, InnoDB row locks
    statusHistoryStacks, us,    \* SpecStatus: the service's stacks, the calls in flight
    boot,                       \* Spec: start-up phase of the process
    clockDay,                   \* Spec: new Date().getDay() of the day of the run
    globalEmailQueue,           \* Spec: whether (global as any).emailQueue is set
    observers,                  \* Spec: the observers attached to the facade's Subject
    index,                      \* Spec: productIndex, producto id -> record
    productosRows,              \* Spec: table productos
    pedidos, detalle_pedidos,   \* Spec: committed rows of pedidos and detalle_pedidos
    txn,                        \* Spec: uncommitted rows of each call's transaction
    emailQueue,                 \* Spec: the Queue<EmailTask> created at start-up
    co,                         \* Spec: the CheckoutFacade.process calls
    stockIndex0, stockIndex,    \* SpecIndex: a ProductIndex at first and now
    reduceLog,                  \* SpecIndex: the reduceStock calls made, in order
    lruCache,                   \* SpecLru: the entries of an LRUCache, oldest first
    lruAccessed,                \* SpecLru: keys held, in the order of their last get hit or set
    lruOp,                      \* SpecLru: the last two calls made and what they returned
    orderCache,                 \* SpecCache: OrderService.orderCache, oldest entry first
    gb,                         \* SpecCache: the OrderService.getById calls
    workerQueue,                \* SpecWorker: the Queue<EmailTask> of the EmailWorker
    isProcessing,               \* SpecWorker: EmailWorker.isProcessing
    sending,                    \* SpecWorker: per drain run in progress, the task in sendEmail
    enqueued,                   \* SpecWorker: number of tasks enqueued so far
    lastStep,                   \* SpecWorker: what the last step was
    adminOp,                    \* SpecAdmin: the last ProductService call and its outcome
    shipIn, shipOut,            \* SpecShipping: a calculateCost call and its outcome
    queueItems,                 \* SpecQueue: Queue.items, the oldest first
    queueOp,                    \* SpecQueue: the last call and what it returned
    pushes, pops,               \* SpecQueue: enqueue calls and dequeue calls that gave a task
    stockQuery,                 \* SpecValidate: the last validateStock call and its answer
    buildOp,                    \* SpecBuild: the last productIndex.build call and its outcome
    poolFree, poolQueue,        \* SpecPool: free connections of the pool, calls waiting for one
    poolPc                      \* SpecPool: where each checkout call stands

orderVars  == <<ent, entOp>>
foldVars   == <<fIn, fOut>>
statusVars == <<pedidosEstado, rowLock, statusHistoryStacks, us>>
shopVars   == <<boot, clockDay, globalEmailQueue, observers, index, productosRows, pedidos,
                detalle_pedidos, txn, emailQueue, co>>
indexVars  == <<stockIndex0, stockIndex, reduceLog>>
lruVars    == <<lruCache, lruAccessed, lruOp>>
cacheVars  == <<orderCache, gb>>
workerVars == <<workerQueue, isProcessing, sending, enqueued, lastStep>>
adminVars  == <<adminOp>>
shipVars   == <<shipIn, shipOut>>
queueVars  == <<queueItems, queueOp, pushes, pops>>
queryVars  == <<stockQuery>>
buildVars  == <<buildOp>>
poolVars   == <<poolFree, poolQueue, poolPc>>
restVars   == <<queryVars, buildVars, poolVars>>
vars       == <<orderVars, foldVars, statusVars, shopVars, indexVars, lruVars, cacheVars,
                workerVars, adminVars, shipVars, queueVars, restVars>>

\* What the steps of each specification leave alone.
OrderFrame  == UNCHANGED <<foldVars, statusVars, shopVars, indexVars, lruVars, cacheVars,
                           workerVars,
                           adminVars, shipVars, queueVars, restVars>>
FoldFrame   == UNCHANGED <<orderVars, statusVars, shopVars, indexVars, lruVars, cacheVars,
                           workerVars,
                           adminVars, shipVars, queueVars, restVars>>
StoreFrame  == UNCHANGED <<orderVars, foldVars, shopVars, indexVars, lruVars, workerVars,
                           adminVars, shipVars, queueVars, restVars>>
StatusFrame == StoreFrame /\ UNCHANGED cacheVars
ShopFrame   == UNCHANGED <<orderVars, foldVars, statusVars, indexVars, lruVars, cacheVars,
                           workerVars,
                           adminVars, shipVars, queueVars, restVars>>
IndexFrame  == UNCHANGED <<orderVars, foldVars, statusVars, shopVars, lruVars, cacheVars,
                           workerVars,
                           adminVars, shipVars, queueVars, restVars>>
LruFrame    == UNCHANGED <<orderVars, foldVars, statusVars, shopVars, indexVars, cacheVars,
                           workerVars,
                           adminVars, shipVars, queueVars, restVars>>
WorkerFrame == UNCHANGED <<orderVars, foldVars, statusVars, shopVars, indexVars, lruVars,
                           cacheVars,
                           adminVars, shipVars, queueVars, restVars>>
AdminFrame  == UNCHANGED <<orderVars, foldVars, statusVars, indexVars, lruVars, cacheVars,
                           workerVars, shipVars, queueVars, restVars>>
ShipFrame   == UNCHANGED <<orderVars, foldVars, statusVars, shopVars, indexVars, lruVars,
                           cacheVars, workerVars, adminVars, queueVars, restVars>>
QueueFrame  == UNCHANGED <<orderVars, foldVars, statusVars, shopVars, indexVars, lruVars,
                           cacheVars, workerVars, adminVars, shipVars,
                           restVars>>
ValidateFrame == UNCHANGED <<orderVars, foldVars, statusVars, shopVars, lruVars, cacheVars,
                            workerVars, adminVars, shipVars, queueVars, buildVars,
                            poolVars>>
BuildFrame  == UNCHANGED <<orderVars, foldVars, statusVars, indexVars, lruVars, cacheVars,
                           workerVars, shipVars, queueVars, queryVars, poolVars>>
PoolFrame   == UNCHANGED <<orderVars, foldVars, statusVars, shopVars, indexVars, lruVars,
                           cacheVars, workerVars, adminVars, shipVars, queueVars, queryVars,
                           buildVars>>

(***************************************************************************)
(* Rational arithmetic for amounts.                                        *)
(***************************************************************************)
Abs(x) == IF x < 0 THEN -x ELSE x

RECURSIVE Gcd(_, _)
Gcd(a, b) == IF b = 0 THEN a ELSE Gcd(b, a % b)

Norm(n, d) ==
    LET g == Gcd(Abs(n), Abs(d))
        s == IF d < 0 THEN -1 ELSE 1
    IN  IF n = 0 THEN <<0, 1>> ELSE <<s * (n \div g), s * (d \div g)>>

Rat(i) == <<i, 1>>
RSub(x, y) ==
    LET g == Gcd(x[2], y[2])
    IN  Norm(x[1] * (y[2] \div g) - y[1] * (x[2] \div g), (x[2] \div g) * y[2])
RAdd(x, y) == RSub(x, <<-y[1], y[2]>>)
RMul(x, y) ==
    LET a == Norm(x[1], y[2])
        b == Norm(y[1], x[2])
    IN  Norm(a[1] * b[1], a[2] * b[2])
RDiv(x, y) == RMul(x, <<y[2], y[1]>>)
RLess(x, y) == x[1] * y[2] < y[1] * x[2]
RNonNeg(x) == x[1] >= 0

(***************************************************************************)
(* Order entity: order.entity.ts                                           *)
(***************************************************************************)
PROCESANDO == "procesando"
ENVIADO    == "enviado"
COMPLETADO == "completado"
CANCELADO  == "cancelado"

OrderStatus == {PROCESANDO, ENVIADO, COMPLETADO, CANCELADO}

\* Acting administrators; None is the absent adminId argument.
Admins == {"admin1", "admin2"}

transicionesValidas ==
    [e \in OrderStatus |->
        CASE e = PROCESANDO -> {ENVIADO, CANCELADO}
          [] e = ENVIADO    -> {COMPLETADO, CANCELADO}
          [] e = COMPLETADO -> {}
          [] e = CANCELADO  -> {}]

\* A transition table that also lets a finished order be cancelled.
esTransicionValidaLax(estadoActual, nuevoEstado) ==
    \/ nuevoEstado \in transicionesValidas[estadoActual]
    \/ estadoActual = COMPLETADO /\ nuevoEstado = CANCELADO

esTransicionValida(estadoActual, nuevoEstado) ==
    nuevoEstado \in transicionesValidas[estadoActual]

\* new Order(data): the history starts with the row's status, no actor.
NewOrder(estado) ==
    [estado |-> estado,
     historial_estados |-> <<[estado |-> estado, usuario_admin |-> None]>>]

\* cambiarEstado that assigns the status and forgets the history entry.
cambiarEstadoNoHist(o, nuevoEstado, adminId) ==
    IF ~esTransicionValida(o.estado, nuevoEstado)
    THEN [threw |-> TRUE, order |-> o]
    ELSE [threw |-> FALSE, order |-> [o EXCEPT !.estado = nuevoEstado]]

\* cambiarEstado that records the request before validating it.
cambiarEstadoEager(o, nuevoEstado, adminId) ==
    LET logged == [o EXCEPT !.historial_estados =
                     Append(@, [estado |-> nuevoEstado, usuario_admin |-> adminId])]
    IN  IF ~esTransicionValida(o.estado, nuevoEstado)
        THEN [threw |-> TRUE, order |-> logged]
        ELSE [threw |-> FALSE, order |-> [logged EXCEPT !.estado = nuevoEstado]]

\* Order.cambiarEstado: throws on an invalid transition, otherwise appends
\* the history entry and then assigns the status.  The result carries the
\* entity as the call leaves it.
cambiarEstado(o, nuevoEstado, adminId) ==
    IF ~esTransicionValida(o.estado, nuevoEstado)
    THEN [threw |-> TRUE, order |-> o]
    ELSE [threw |-> FALSE,
          order |-> [estado |-> nuevoEstado,
                     historial_estados |->
                        Append(o.historial_estados,
                               [estado |-> nuevoEstado, usuario_admin |-> adminId])]]

\* Order.fromDatabase on a row in any status (Order.create gives PROCESANDO).
OrderInit ==
    /\ ent \in {NewOrder(e) : e \in OrderStatus}
    /\ entOp = [op |-> "new", from |-> None, req |-> None, admin |-> None, threw |-> FALSE]

OrderIdle ==
    /\ ent = NewOrder(PROCESANDO)
    /\ entOp = [op |-> "new", from |-> None, req |-> None, admin |-> None, threw |-> FALSE]

CambiarEstado(nuevoEstado, adminId) ==
    LET r == cambiarEstado(ent, nuevoEstado, adminId)
    IN  /\ ent' = r.order
        /\ entOp' = [op |-> "cambiarEstado", from |-> ent.estado, req |-> nuevoEstado,
                     admin |-> adminId, threw |-> r.threw]
        /\ OrderFrame

(***************************************************************************)
(* Discount engine: CheckoutFacade.getAutomaticDiscounts,                   *)
(* calculateSubtotal and applyDiscountsRecursive (IShippingStrategy.ts).    *)
(***************************************************************************)
Percentage == "percentage"
Fixed      == "fixed"

Bienvenida      == [type |-> Percentage, value |-> 10,    nombre |-> "Bienvenida - Primera compra"]
CompraMayor     == [type |-> Percentage, value |-> 5,     nombre |-> "Compra Mayor a $500,000"]
LunesDescuento  == [type |-> Fixed,      value |-> 10000, nombre |-> "Lunes de Descuento"]
CompraVolumen   == [type |-> Percentage, value |-> 3,     nombre |-> "Compra por Volumen (5+ productos)"]
ClienteFrecuente == [type |-> Percentage, value |-> 5,    nombre |-> "Cliente Frecuente"]

\* Date.getDay(): 0 is Sunday, 1 is Monday.
Days == 0 .. 6

\* parseFloat of a DECIMAL(10,2) column value, which the driver hands over as
\* a string such as "100000.00"; the model keeps the column in cents.
parseFloat(cents) == Norm(cents, 100)

RECURSIVE SumCantidad(_)
SumCantidad(productos) ==
    IF productos = <<>> THEN 0
    ELSE Head(productos).cantidad + SumCantidad(Tail(productos))

\* productos.reduce((sum, p) => sum + p.cantidad * p.precio, 0)
RECURSIVE calculateSubtotalFrom(_, _)
calculateSubtotalFrom(sum, productos) ==
    IF productos = <<>> THEN sum
    ELSE calculateSubtotalFrom(
            RAdd(sum, RMul(Rat(Head(productos).cantidad), Head(productos).precio)),
            Tail(productos))

calculateSubtotal(productos) == calculateSubtotalFrom(Rat(0), productos)

\* A rule list without the first-purchase rule.
getAutomaticDiscountsNoWelcome(orderCount, subtotal, today, productos) ==
       (IF RLess(Rat(500000), subtotal) THEN <<CompraMayor>> ELSE <<>>)
    \o (IF today = 1 THEN <<LunesDescuento>> ELSE <<>>)
    \o (IF SumCantidad(productos) >= 5 THEN <<CompraVolumen>> ELSE <<>>)
    \o (IF orderCount >= 5 THEN <<ClienteFrecuente>> ELSE <<>>)

\* The rule list, in the order the code pushes the discounts.  orderCount is
\* the COUNT(*) of the customer's orders, today is new Date().getDay().
getAutomaticDiscounts(orderCount, subtotal, today, productos) ==
       (IF orderCount = 0 THEN <<Bienvenida>> ELSE <<>>)
    \o (IF RLess(Rat(500000), subtotal) THEN <<CompraMayor>> ELSE <<>>)
    \o (IF today = 1 THEN <<LunesDescuento>> ELSE <<>>)
    \o (IF SumCantidad(productos) >= 5 THEN <<CompraVolumen>> ELSE <<>>)
    \o (IF orderCount >= 5 THEN <<ClienteFrecuente>> ELSE <<>>)

\* One discount applied to the original subtotal instead of the running total.
applyOneOnBase(base, total, first) ==
    IF first.type = Percentage
    THEN RSub(total, RDiv(RMul(base, Rat(first.value)), Rat(100)))
    ELSE RSub(total, Rat(first.value))

RECURSIVE applyDiscountsOnBase(_, _, _)
applyDiscountsOnBase(base, total, discounts) ==
    IF Len(discounts) = 0 THEN total
    ELSE applyDiscountsOnBase(base, applyOneOnBase(base, total, Head(discounts)),
                              Tail(discounts))

\* A fold in which every percentage is taken of the original subtotal.
applyDiscountsFlat(total, discounts) == applyDiscountsOnBase(total, total, discounts)

\* applyDiscountsRecursive: base case on the empty list, otherwise the first
\* discount is applied to the current total and the rest recursively.
RECURSIVE applyDiscountsRecursive(_, _)
applyDiscountsRecursive(total, discounts) ==
    IF Len(discounts) = 0 THEN total
    ELSE LET first == Head(discounts)
             rest  == Tail(discounts)
             newTotal ==
                IF first.type = Percentage
                THEN RSub(total, RDiv(RMul(total, Rat(first.value)), Rat(100)))
                ELSE RSub(total, Rat(first.value))
         IN  applyDiscountsRecursive(newTotal, rest)

\* Bounds of the fold specification.
MaxOrderCount == 5
MaxFoldQty    == 3
MaxDiscounts  == 3

\* Unit prices in cents (DECIMAL(10,2)).
FoldPrices == {400000, 10000000, 30000000}

FoldLines == [cantidad : 1 .. MaxFoldQty, precio : {parseFloat(c) : c \in FoldPrices}]
FoldCarts == {<<l>> : l \in FoldLines} \cup {<<l1, l2>> : l1 \in FoldLines, l2 \in FoldLines}

DiscountKinds == {Bienvenida, CompraMayor, LunesDescuento, CompraVolumen}
FoldSubtotals == {Rat(0), Rat(5000), Rat(200000), Rat(600000)}

RECURSIVE SeqsUpTo(_, _)
SeqsUpTo(S, n) ==
    IF n = 0 THEN {<<>>}
    ELSE LET shorter == SeqsUpTo(S, n - 1)
         IN  shorter \cup {Append(q, x) : q \in shorter, x \in S}

FoldIdle ==
    /\ fIn = [source |-> None, subtotal |-> Rat(0), discounts |-> <<>>]
    /\ fOut = Rat(0)

\* Steps 2 and 3 of process: subtotal, rule list, fold.
EngineFold ==
    /\ fIn.source = None
    /\ \E orderCount \in 0 .. MaxOrderCount, today \in Days, productos \in FoldCarts :
        LET subtotal  == calculateSubtotal(productos)
            discounts == getAutomaticDiscounts(orderCount, subtotal, today, productos)
        IN  /\ fIn' = [source |-> "engine", subtotal |-> subtotal, discounts |-> discounts]
            /\ fOut' = applyDiscountsRecursive(subtotal, discounts)
    /\ FoldFrame

\* The fold on an arbitrary subtotal and discount list.
AnyFold ==
    /\ fIn.source = None
    /\ \E subtotal \in FoldSubtotals, discounts \in SeqsUpTo(DiscountKinds, MaxDiscounts) :
        /\ fIn' = [source |-> "any", subtotal |-> subtotal, discounts |-> discounts]
        /\ fOut' = applyDiscountsRecursive(subtotal, discounts)
    /\ FoldFrame

\* The result has been used; the next evaluation starts.
FoldReset ==
    /\ fIn.source # None
    /\ fIn' = [source |-> None, subtotal |-> Rat(0), discounts |-> <<>>]
    /\ fOut' = Rat(0)
    /\ FoldFrame



(***************************************************************************)
(* LRUCache (ProductIndex.ts).  The Map of the class keeps its keys in      *)
(* insertion order; it is modelled as the sequence of its entries, the      *)
(* first inserted first.  No method has an await.                           *)
(***************************************************************************)
\* Bounds: the capacity given to the constructor, the number of keys used.
LruCapacity == 2
MaxLruKeys  == 3

LruKeys   == 1 .. MaxLruKeys
LruValues == {"v1", "v2"}

KeysOf(cache) == {cache[i].key : i \in 1 .. Len(cache)}
Without(cache, key) == SelectSeq(cache, LAMBDA e : e.key # key)
ValueOf(cache, key) == (CHOOSE i \in 1 .. Len(cache) : cache[i].key = key)

\* LRUCache.has
LRUCacheHas(cache, key) == key \in KeysOf(cache)

\* get that returns the value without moving the entry.
LRUCacheGetInPlace(cache, key) ==
    IF ~LRUCacheHas(cache, key)
    THEN [value |-> None, cache |-> cache]
    ELSE [value |-> cache[ValueOf(cache, key)].value, cache |-> cache]

\* LRUCache.get: undefined for a key that is not there; otherwise the entry
\* is deleted and inserted again at the end, and its value returned.
LRUCacheGet(cache, key) ==
    IF ~LRUCacheHas(cache, key)
    THEN [value |-> None, cache |-> cache]
    ELSE LET value == cache[ValueOf(cache, key)].value
         IN  [value |-> value,
              cache |-> Append(Without(cache, key), [key |-> key, value |-> value])]

\* set that makes room before it looks for the key.
LRUCacheSetRoomFirst(cache, capacity, key, value) ==
    LET c1 == IF Len(cache) >= capacity THEN Tail(cache) ELSE cache
        c2 == IF LRUCacheHas(c1, key) THEN Without(c1, key) ELSE c1
    IN  Append(c2, [key |-> key, value |-> value])

\* set that makes room by deleting the last inserted entry.
LRUCacheSetDropNewest(cache, capacity, key, value) ==
    LET c1 == IF LRUCacheHas(cache, key) THEN Without(cache, key) ELSE cache
        c2 == IF Len(c1) >= capacity THEN SubSeq(c1, 1, Len(c1) - 1) ELSE c1
    IN  Append(c2, [key |-> key, value |-> value])

\* LRUCache.set: an entry of the key is deleted; if the size has reached the
\* capacity the first key of the Map is deleted; the entry goes to the end.
LRUCacheSet(cache, capacity, key, value) ==
    LET c1 == IF LRUCacheHas(cache, key) THEN Without(cache, key) ELSE cache
        c2 == IF Len(c1) >= capacity THEN Tail(c1) ELSE c1
    IN  Append(c2, [key |-> key, value |-> value])

\* LRUCache.delete
LRUCacheDelete(cache, key) ==
    [deleted |-> LRUCacheHas(cache, key), cache |-> Without(cache, key)]

\* A call: its kind and arguments, the keys held when it was made, its result.
NoLruOp == [kind |-> "none", key |-> 0, value |-> None, held |-> {}, result |-> None]

\* new LRUCache(capacity)
LruInit ==
    /\ lruCache = <<>>
    /\ lruAccessed = <<>>
    /\ lruOp = <<NoLruOp, NoLruOp>>

\* The key is the one accessed last.
Touch(order, key) == Append(SelectSeq(order, LAMBDA k : k # key), key)
\* The order among the keys that are held.
Held(order, cache) == SelectSeq(order, LAMBDA k : k \in KeysOf(cache))

LruGet(key) ==
    LET r == LRUCacheGet(lruCache, key)
    IN  /\ lruCache' = r.cache
        /\ lruAccessed' = IF key \in KeysOf(lruCache) THEN Touch(lruAccessed, key)
                          ELSE lruAccessed
        /\ lruOp' = <<lruOp[2], [kind |-> "get", key |-> key, value |-> None,
                                 held |-> KeysOf(lruCache), result |-> r.value]>>
        /\ LruFrame

LruSet(key, value) ==
    /\ lruCache' = LRUCacheSet(lruCache, LruCapacity, key, value)
    /\ lruAccessed' = Held(Touch(lruAccessed, key), lruCache')
    /\ lruOp' = <<lruOp[2], [kind |-> "set", key |-> key, value |-> value,
                             held |-> KeysOf(lruCache), result |-> None]>>
    /\ LruFrame

LruHas(key) ==
    /\ lruOp' = <<lruOp[2], [kind |-> "has", key |-> key, value |-> None,
                             held |-> KeysOf(lruCache),
                             result |-> LRUCacheHas(lruCache, key)]>>
    /\ UNCHANGED <<lruCache, lruAccessed>>
    /\ LruFrame

LruDelete(key) ==
    LET r == LRUCacheDelete(lruCache, key)
    IN  /\ lruCache' = r.cache
        /\ lruOp' = <<lruOp[2], [kind |-> "delete", key |-> key, value |-> None,
                                 held |-> KeysOf(lruCache), result |-> r.deleted]>>
        /\ lruAccessed' = Held(lruAccessed, lruCache')
        /\ LruFrame

(***************************************************************************)
(* OrderService.updateStatus (order.service.ts) against the pedidos table.  *)
(*                                                                         *)
(* The store is MySQL/InnoDB at its default isolation (the pool in         *)
(* config/database.ts sets none): the plain SELECT is a non-locking read   *)
(* of the committed row; UPDATE takes the row's exclusive lock, waits      *)
(* while another transaction holds it and then writes over the latest      *)
(* committed version; commit and rollback release the lock.                *)
(***************************************************************************)
\* Number of updateStatus calls, any of which may overlap.
MaxUpdates == 2

UpdateCalls == 1 .. MaxUpdates

\* Orders present in pedidos (inserted by checkout as 'procesando') and an
\* identifier that matches no row.
StoredOrders == {"o1"}
UnknownOrder == "o0"
StatusAdmins == {"admin1"}

NoOrder == [estado |-> None, historial_estados |-> <<>>]

\* A call's record: its arguments, the status its SELECT returned (or the
\* kind of error), the Order entity it built, and its response once returned.
IdleUpdate ==
    [pc |-> "idle", orderId |-> None, estado |-> None, adminId |-> None,
     read |-> None, order |-> NoOrder, success |-> FALSE, message |-> None]

\* The rows are in any status earlier calls have left them in; the stacks live
\* in memory only and are empty after a start of the server.
StatusInit ==
    /\ pedidosEstado \in [StoredOrders -> OrderStatus]
    /\ rowLock = [o \in StoredOrders |-> 0]
    /\ statusHistoryStacks = [o \in StoredOrders |-> <<>>]
    /\ us = [c \in UpdateCalls |-> IdleUpdate]

StatusIdle ==
    /\ pedidosEstado = [o \in StoredOrders |-> PROCESANDO]
    /\ rowLock = [o \in StoredOrders |-> 0]
    /\ statusHistoryStacks = [o \in StoredOrders |-> <<>>]
    /\ us = [c \in UpdateCalls |-> IdleUpdate]

\* The controller hands over one of the four status names; the call acquires
\* a connection and opens its transaction.
UsBegin(c, orderId, estado, adminId) ==
    /\ us[c].pc = "idle"
    /\ us' = [us EXCEPT ![c] = [IdleUpdate EXCEPT !.pc = "select", !.orderId = orderId,
                                                  !.estado = estado, !.adminId = adminId]]
    /\ UNCHANGED <<pedidosEstado, rowLock, statusHistoryStacks>>
    /\ StatusFrame

\* SELECT * FROM pedidos WHERE id = ? returns no row: 'Pedido no encontrado'.
UsSelectMissing(c) ==
    /\ us[c].pc = "select"
    /\ us[c].orderId \notin StoredOrders
    /\ us' = [us EXCEPT ![c].pc = "rollback", ![c].read = "not_found"]
    /\ UNCHANGED <<pedidosEstado, rowLock, statusHistoryStacks>>
    /\ StatusFrame

\* SELECT returns the committed row; Order.fromDatabase and cambiarEstado run
\* in the same turn.  A throw goes to the catch block, otherwise the UPDATE is
\* issued.
UsSelect(c) ==
    /\ us[c].pc = "select"
    /\ us[c].orderId \in StoredOrders
    /\ LET row == pedidosEstado[us[c].orderId]
           r   == cambiarEstado(NewOrder(row), us[c].estado, us[c].adminId)
       IN  us' = [us EXCEPT ![c].pc = IF r.threw THEN "rollback" ELSE "update",
                            ![c].read = row,
                            ![c].order = r.order]
    /\ UNCHANGED <<pedidosEstado, rowLock, statusHistoryStacks>>
    /\ StatusFrame

\* UPDATE pedidos SET estado = ? WHERE id = ?: granted the row lock.
UsUpdate(c) ==
    /\ us[c].pc = "update"
    /\ rowLock[us[c].orderId] = 0
    /\ rowLock' = [rowLock EXCEPT ![us[c].orderId] = c]
    /\ us' = [us EXCEPT ![c].pc = "commit"]
    /\ UNCHANGED <<pedidosEstado, statusHistoryStacks>>
    /\ StatusFrame

\* The UPDATE is rejected by the store (connection lost, lock wait timeout).
UsUpdateFails(c) ==
    /\ us[c].pc = "update"
    /\ us' = [us EXCEPT ![c].pc = "rollback", ![c].read = "db_error"]
    /\ UNCHANGED <<pedidosEstado, rowLock, statusHistoryStacks>>
    /\ StatusFrame

\* connection.commit() takes effect in the store.
UsCommit(c) ==
    /\ us[c].pc = "commit"
    /\ pedidosEstado' = [pedidosEstado EXCEPT ![us[c].orderId] = us[c].estado]
    /\ rowLock' = [rowLock EXCEPT ![us[c].orderId] = 0]
    /\ us' = [us EXCEPT ![c].pc = "committed"]
    /\ UNCHANGED statusHistoryStacks
    /\ StatusFrame

\* After the commit: push on the order's history stack, delete the order's
\* entry of the cache (invalidateUserCache deletes the key of the customer's
\* list, which getById never reads) and return success.
UsFinish(c) ==
    /\ us[c].pc = "committed"
    /\ statusHistoryStacks' =
          [statusHistoryStacks EXCEPT ![us[c].orderId] =
              Append(@, [estado |-> us[c].estado, admin_id |-> us[c].adminId])]
    /\ orderCache' = LRUCacheDelete(orderCache, us[c].orderId).cache
    /\ us' = [us EXCEPT ![c].pc = "done", ![c].success = TRUE,
                        ![c].message = "Estado del pedido actualizado exitosamente"]
    /\ UNCHANGED <<pedidosEstado, rowLock, gb>>
    /\ StoreFrame

\* catch: rollback, then the failure envelope with the error's message.
UsRollback(c) ==
    /\ us[c].pc = "rollback"
    /\ us' = [us EXCEPT ![c].pc = "done", ![c].success = FALSE,
                        ![c].message =
                            CASE us[c].read = "not_found" -> "Pedido no encontrado"
                              [] us[c].read = "db_error"  -> "db_error"
                              [] OTHER -> "No se puede cambiar de estado"]
    /\ UNCHANGED <<pedidosEstado, rowLock, statusHistoryStacks>>
    /\ StatusFrame

\* OrderService.getStatusHistory: the entries of the order's stack from the
\* bottom to the top (Stack.getHistory), or [] when the order has no stack.
getStatusHistory(stacks, orderId) ==
    IF orderId \in DOMAIN stacks THEN stacks[orderId] ELSE <<>>

(***************************************************************************)
(* Shipping strategies: ShippingStrategyFactory.ts, StandardShipping.ts,    *)
(* ExpressShipping.ts, StorePickup.ts.                                      *)
(***************************************************************************)
STANDARD_COST == 5000
EXPRESS_COST  == 15000
PICKUP_COST   == 0

ShippingTypes == {"standard", "express", "pickup"}

\* A factory whose default branch returns the standard strategy.
ShippingStrategyFactoryCreateDefault(type) ==
    IF type \in ShippingTypes
    THEN [threw |-> FALSE, strategy |-> type]
    ELSE [threw |-> FALSE, strategy |-> "standard"]

\* ShippingStrategyFactory.create: the default branch throws.
ShippingStrategyFactoryCreate(type) ==
    IF type \in ShippingTypes
    THEN [threw |-> FALSE, strategy |-> type]
    ELSE [threw |-> TRUE, strategy |-> None]

\* calculateCost without the test of the item list.
calculateCostUnchecked(strategy, items) ==
    [threw |-> FALSE,
     cost |-> CASE strategy = "standard" -> STANDARD_COST
                [] strategy = "express"  -> EXPRESS_COST
                [] strategy = "pickup"   -> PICKUP_COST]

\* A cost that grows with the number of lines.
calculateCostPerLine(strategy, items) ==
    IF Len(items) = 0
    THEN [threw |-> TRUE, cost |-> 0]
    ELSE [threw |-> FALSE,
          cost |-> Len(items) * (CASE strategy = "standard" -> STANDARD_COST
                                   [] strategy = "express"  -> EXPRESS_COST
                                   [] strategy = "pickup"   -> PICKUP_COST)]

\* calculateCost of the three strategies: throws on an empty item list.
calculateCost(strategy, items) ==
    IF Len(items) = 0
    THEN [threw |-> TRUE, cost |-> 0]
    ELSE [threw |-> FALSE,
          cost |-> CASE strategy = "standard" -> STANDARD_COST
                     [] strategy = "express"  -> EXPRESS_COST
                     [] strategy = "pickup"   -> PICKUP_COST]

(***************************************************************************)
(* Start-up (server.ts, order.routes.ts, OrderService constructor) and      *)
(* CheckoutFacade.process with its observers.                               *)
(*                                                                         *)
(* Node runs one turn at a time; a call gives way at each await.  A step    *)
(* of a call runs from one read or write of shared data (the index, the     *)
(* committed tables, the queue) to just before the next one: awaits that    *)
(* touch nothing another call can see (acquiring a connection,              *)
(* beginTransaction, an INSERT inside the open transaction, the rollback's  *)
(* return) are part of the step they follow or precede.  Every statement    *)
(* sent to the store may fail; the store applies a transaction's rows at    *)
(* commit.                                                                  *)
(***************************************************************************)
\* Bound: the number of checkout calls, all of which may be in flight together.
MaxCheckouts == 2

CheckoutCalls == 1 .. MaxCheckouts

Users == {"u1"}

\* The days the runs take place on: a Sunday, a Monday.
DaysTried == {0, 1}

\* Table productos at start-up: stock, and precio in cents (DECIMAL(10,2)).
Catalog ==
    [p \in {"p1", "p2"} |->
        IF p = "p1" THEN [stock |-> 3, precio |-> 10000000]
                    ELSE [stock |-> 1, precio |-> 400000]]

Line(p, n) == [producto_id |-> p, cantidad |-> n]

\* The request bodies tried: within stock, a shipping method the factory does
\* not know, one product on two lines, more than the stock, a product that is
\* in no table, two products.
CheckoutRequests ==
    { [productos |-> <<Line("p1", 2)>>,               metodo_envio |-> "standard"],
      [productos |-> <<Line("p2", 1)>>,               metodo_envio |-> "drone"],
      [productos |-> <<Line("p1", 2), Line("p1", 2)>>, metodo_envio |-> "express"],
      [productos |-> <<Line("p1", 5)>>,               metodo_envio |-> "standard"],
      [productos |-> <<Line("px", 1)>>,               metodo_envio |-> "pickup"],
      [productos |-> <<Line("p1", 1), Line("p2", 1)>>, metodo_envio |-> "pickup"] }

\* A JavaScript number written to a DECIMAL(10,2) column, in cents, rounded
\* half away from zero.
toDecimal(x) ==
    LET n     == Abs(x[1])
        whole == n \div x[2]
        frac  == n % x[2]
        cents == whole * 100 + ((2 * frac * 100 + x[2]) \div (2 * x[2]))
    IN  IF x[1] < 0 THEN -cents ELSE cents

\* Subject.attach: an observer already in the list is not added again.
attach(list, observer) ==
    IF \E i \in 1 .. Len(list) : list[i] = observer THEN list ELSE Append(list, observer)

\* OrderService constructor: the EmailObserver is attached only if
\* global.emailQueue is set at that moment.
OrderServiceObservers(hasEmailQueue) ==
    attach(IF hasEmailQueue THEN attach(<<>>, "EmailObserver") ELSE <<>>,
           "InventoryObserver")

\* validateProducts that checks existence only.
validateProductsNoStock(idx, items, acc) ==
    IF \E i \in 1 .. Len(items) : items[i].producto_id \notin DOMAIN idx
    THEN [success |-> FALSE, error |-> "Producto no encontrado", productos |-> <<>>]
    ELSE [success |-> TRUE, error |-> None,
          productos |-> [i \in 1 .. Len(items) |->
                            [producto_id |-> items[i].producto_id,
                             cantidad |-> items[i].cantidad,
                             precio |-> parseFloat(idx[items[i].producto_id].precio)]]]

\* The loop of validateProducts over the items not yet seen: the first line
\* whose product is absent or whose quantity exceeds the indexed stock ends
\* it; each line is compared with the index as it is, on its own.
RECURSIVE validateProductsFrom(_, _, _)
validateProductsFrom(idx, items, acc) ==
    IF items = <<>>
    THEN [success |-> TRUE, error |-> None, productos |-> acc]
    ELSE LET item == Head(items)
         IN  IF item.producto_id \notin DOMAIN idx
             THEN [success |-> FALSE, error |-> "Producto no encontrado", productos |-> <<>>]
             ELSE IF idx[item.producto_id].stock < item.cantidad
             THEN [success |-> FALSE, error |-> "Stock insuficiente", productos |-> <<>>]
             ELSE validateProductsFrom(idx, Tail(items),
                    Append(acc, [producto_id |-> item.producto_id,
                                 cantidad |-> item.cantidad,
                                 precio |-> parseFloat(idx[item.producto_id].precio)]))

validateProducts(idx, items) == validateProductsFrom(idx, items, <<>>)

\* A catch block that returns the failure without rolling back.
afterStatementErrorLoose(stage) == "done"

\* The try/catch of process: a statement that fails at any stage goes to the
\* catch block, which rolls back.
afterStatementError(stage) == "rollback"

\* InventoryObserver.update, index part: product.stock -= cantidad when the
\* product is in the index.
reduceIndex(idx, producto_id, cantidad) ==
    IF producto_id \in DOMAIN idx
    THEN [idx EXCEPT ![producto_id].stock = @ - cantidad]
    ELSE idx

EmptyTxn == [pedido |-> {}, detalles |-> {}]

IdleCheckout ==
    [pc |-> "idle", usuario_id |-> None, productos |-> <<>>, metodo_envio |-> None,
     productosConDetalles |-> <<>>, subtotal |-> Rat(0), descuentos |-> <<>>,
     total_descuentos |-> Rat(0), costo_envio |-> 0, total |-> Rat(0),
     i |-> 0, success |-> FALSE, error |-> None, began |-> FALSE]

\* build without index.clear().
buildNoClear(idx, rows) ==
    [index |-> [p \in DOMAIN idx \cup DOMAIN rows |->
                    IF p \in DOMAIN rows THEN rows[p] ELSE idx[p]],
     size  |-> Cardinality(DOMAIN idx \cup DOMAIN rows)]

\* ProductIndex.build once the SELECT has resolved with the given rows:
\* index.clear(), index.set(product.id, product) per row, return index.size.
build(idx, rows) ==
    [index |-> [p \in DOMAIN rows |-> rows[p]],
     size  |-> Cardinality(DOMAIN rows)]

\* The process before server.ts is evaluated, with the given rows in productos.
ShopStart(rows) ==
    /\ boot = "import"
    /\ clockDay = 0
    /\ globalEmailQueue = FALSE
    /\ observers = <<>>
    /\ index = [p \in {} |-> 0]
    /\ productosRows = rows
    /\ pedidos = {}
    /\ detalle_pedidos = {}
    /\ txn = [c \in CheckoutCalls |-> EmptyTxn]
    /\ emailQueue = <<>>
    /\ co = [c \in CheckoutCalls |-> IdleCheckout]

ShopInit == ShopStart(Catalog)

\* server.ts imports app, app imports order.routes, whose module body runs
\* new OrderController() and with it the OrderService constructor.
LoadModules ==
    /\ boot = "import"
    /\ observers' = OrderServiceObservers(globalEmailQueue)
    /\ boot' = "start"
    /\ UNCHANGED <<clockDay, globalEmailQueue, index, productosRows, pedidos,
                   detalle_pedidos, txn, emailQueue, co>>
    /\ ShopFrame

\* startServer: productIndex.build() loads every row of productos, the queue
\* is created and published as global.emailQueue, the server listens.
StartServer(d) ==
    /\ boot = "start"
    /\ clockDay' = d
    /\ index' = build(index, productosRows).index
    /\ emailQueue' = <<>>
    /\ globalEmailQueue' = TRUE
    /\ boot' = "listening"
    /\ UNCHANGED <<observers, productosRows, pedidos, detalle_pedidos, txn, co>>
    /\ ShopFrame

\* process up to its first wait on shared data: the connection is acquired,
\* the transaction opened (began) and validateProducts run against the index.  On
\* failure the rollback is awaited; otherwise the subtotal is computed and
\* getAutomaticDiscounts waits for its COUNT query.  The calls are alike, so
\* they are numbered in the order they start.
CoBegin(c, usuario_id, data) ==
    /\ boot = "listening"
    /\ co[c].pc = "idle"
    /\ \A b \in CheckoutCalls : b < c => co[b].pc # "idle"
    /\ LET v == validateProducts(index, data.productos)
           call == [IdleCheckout EXCEPT !.usuario_id = usuario_id,
                                        !.productos = data.productos,
                                        !.metodo_envio = data.metodo_envio,
                                        !.began = TRUE]
       IN  co' = [co EXCEPT ![c] =
                    IF v.success
                    THEN [call EXCEPT !.pc = "discounts",
                                      !.productosConDetalles = v.productos,
                                      !.subtotal = calculateSubtotal(v.productos)]
                    ELSE [call EXCEPT !.pc = "rollback", !.error = v.error]]
    /\ UNCHANGED <<boot, clockDay, globalEmailQueue, observers, index, productosRows,
                   pedidos, detalle_pedidos, txn, emailQueue>>
    /\ ShopFrame

\* Steps 3 to 5 as computed once the COUNT of the customer's committed orders
\* has returned: the discounts listed and folded, the shipping cost, the total.
Priced(c) ==
    LET orderCount == Cardinality({r \in pedidos : r.usuario_id = co[c].usuario_id})
        discounts  == getAutomaticDiscounts(orderCount, co[c].subtotal, clockDay,
                                            co[c].productos)
        totalConDescuentos == applyDiscountsRecursive(co[c].subtotal, discounts)
        made == ShippingStrategyFactoryCreate(co[c].metodo_envio)
        cost == calculateCost(made.strategy, co[c].productosConDetalles)
        seen == [co[c] EXCEPT !.descuentos = discounts,
                              !.total_descuentos =
                                  RSub(co[c].subtotal, totalConDescuentos)]
    IN  IF made.threw \/ cost.threw
        THEN [seen EXCEPT !.pc = "rollback", !.error = "shipping"]
        ELSE [seen EXCEPT !.pc = "insert",
                          !.costo_envio = cost.cost,
                          !.total = RAdd(totalConDescuentos, Rat(cost.cost))]

\* The row of INSERT INTO pedidos and the rows of the first n INSERT INTO
\* detalle_pedidos of a priced call.
OrderRow(call, c) ==
    [id |-> c, usuario_id |-> call.usuario_id,
     subtotal |-> toDecimal(call.subtotal),
     costo_envio |-> toDecimal(Rat(call.costo_envio)),
     total |-> toDecimal(call.total),
     estado |-> PROCESANDO,
     metodo_envio |-> call.metodo_envio]

\* Line rows whose price is read from the index when the INSERT is sent.
LineRowsLive(call, c, n) ==
    {[pedido_id |-> c, n |-> i,
      producto_id |-> call.productosConDetalles[i].producto_id,
      cantidad |-> call.productosConDetalles[i].cantidad,
      precio_unitario |->
          toDecimal(parseFloat(index[call.productosConDetalles[i].producto_id].precio))] :
        i \in 1 .. n}

LineRows(call, c, n) ==
    {[pedido_id |-> c, n |-> i,
      producto_id |-> call.productosConDetalles[i].producto_id,
      cantidad |-> call.productosConDetalles[i].cantidad,
      precio_unitario |-> toDecimal(call.productosConDetalles[i].precio)] : i \in 1 .. n}

\* Steps 3 to 6: the call is priced and every INSERT succeeds inside its
\* transaction (rows no other connection sees); the commit is sent.  A throw
\* of the factory or of calculateCost goes to the catch block.
CoPrice(c) ==
    /\ co[c].pc = "discounts"
    /\ LET call == Priced(c)
       IN  IF call.pc = "insert"
           THEN /\ txn' = [txn EXCEPT ![c] =
                            [pedido |-> {OrderRow(call, c)},
                             detalles |-> LineRows(call, c, Len(call.productosConDetalles))]]
                /\ co' = [co EXCEPT ![c] = [call EXCEPT !.pc = "commit"]]
           ELSE /\ txn' = txn
                /\ co' = [co EXCEPT ![c] = call]
    /\ UNCHANGED <<boot, clockDay, globalEmailQueue, observers, index, productosRows,
                   pedidos, detalle_pedidos, emailQueue>>
    /\ ShopFrame

\* Step 6 with a rejected statement: the INSERT of the order (n = 0) or the
\* INSERT of line n fails, after the statements before it have succeeded.
CoInsertFails(c, n) ==
    /\ co[c].pc = "discounts"
    /\ LET call == Priced(c)
           stage == IF n = 0 THEN "insert_order" ELSE "insert_line"
       IN  /\ call.pc = "insert"
           /\ n <= Len(call.productosConDetalles)
           /\ txn' = [txn EXCEPT ![c] =
                        IF n = 0 THEN EmptyTxn
                        ELSE [pedido |-> {OrderRow(call, c)},
                              detalles |-> LineRows(call, c, n - 1)]]
           /\ co' = [co EXCEPT ![c] = [call EXCEPT !.pc = afterStatementError(stage),
                                                   !.error = stage]]
    /\ UNCHANGED <<boot, clockDay, globalEmailQueue, observers, index, productosRows,
                   pedidos, detalle_pedidos, emailQueue>>
    /\ ShopFrame

EmailTask(c) ==
    [type |-> "order_confirmation", orderId |-> c, userId |-> co[c].usuario_id,
     total |-> co[c].total]

\* Subject.notify up to the first observer that waits: every EmailObserver
\* before it enqueues its task at once.
RECURSIVE notifyQueue(_, _, _)
notifyQueue(list, queue, task) ==
    IF list = <<>> \/ Head(list) = "InventoryObserver" THEN queue
    ELSE notifyQueue(Tail(list), Append(queue, task), task)

\* Steps 7 and 8: the commit takes effect, the customer's row is read,
\* Subject.notify runs the observers; InventoryObserver.update waits for a
\* connection and its first UPDATE.
CoCommit(c) ==
    /\ co[c].pc = "commit"
    /\ pedidos' = pedidos \cup txn[c].pedido
    /\ detalle_pedidos' = detalle_pedidos \cup txn[c].detalles
    /\ txn' = [txn EXCEPT ![c] = EmptyTxn]
    /\ emailQueue' = notifyQueue(observers, emailQueue, EmailTask(c))
    /\ co' = [co EXCEPT ![c].pc = "inventory", ![c].i = 1]
    /\ UNCHANGED <<boot, clockDay, globalEmailQueue, observers, index, productosRows>>
    /\ ShopFrame

\* The commit is rejected by the store.
CoCommitFails(c) ==
    /\ co[c].pc = "commit"
    /\ co' = [co EXCEPT ![c].pc = afterStatementError("commit"), ![c].error = "commit"]
    /\ UNCHANGED <<boot, clockDay, globalEmailQueue, observers, index, productosRows,
                   pedidos, detalle_pedidos, txn, emailQueue>>
    /\ ShopFrame

\* The commit takes effect and the SELECT of the customer that follows it is
\* rejected: the catch block is entered with the order committed.
CoUserQueryFails(c) ==
    /\ co[c].pc = "commit"
    /\ pedidos' = pedidos \cup txn[c].pedido
    /\ detalle_pedidos' = detalle_pedidos \cup txn[c].detalles
    /\ txn' = [txn EXCEPT ![c] = EmptyTxn]
    /\ co' = [co EXCEPT ![c].pc = afterStatementError("user_query"),
                        ![c].error = "user_query"]
    /\ UNCHANGED <<boot, clockDay, globalEmailQueue, observers, index, productosRows,
                   emailQueue>>
    /\ ShopFrame

\* InventoryObserver.update, one item: UPDATE productos SET stock = stock - ?
\* returns, then the index record is decremented in the same turn.  After the
\* last item notify ends and process returns the success result.
CoInventory(c) ==
    /\ co[c].pc = "inventory"
    /\ LET item == co[c].productosConDetalles[co[c].i]
           last == co[c].i = Len(co[c].productosConDetalles)
       IN  /\ productosRows' =
                 [productosRows EXCEPT ![item.producto_id].stock = @ - item.cantidad]
           /\ index' = reduceIndex(index, item.producto_id, item.cantidad)
           /\ co' = [co EXCEPT ![c].pc = IF last THEN "done" ELSE "inventory",
                               ![c].i = IF last THEN 0 ELSE co[c].i + 1,
                               ![c].success = last]
    /\ UNCHANGED <<boot, clockDay, globalEmailQueue, observers, pedidos, detalle_pedidos,
                   txn, emailQueue>>
    /\ ShopFrame

\* OrderService.create, the descuentos of the success response: per discount
\* the valor, which for a percentage is result.subtotal * (d.value / 100).
itemizedDiscounts(subtotal, discounts) ==
    [k \in 1 .. Len(discounts) |->
        [nombre |-> discounts[k].nombre,
         valor  |-> IF discounts[k].type = Percentage
                    THEN RMul(subtotal, RDiv(Rat(discounts[k].value), Rat(100)))
                    ELSE Rat(discounts[k].value)]]

\* OrderController.create: 400 without a product or without a mode.
controllerAccepts(data) ==
    Len(data.productos) > 0 /\ data.metodo_envio # None

\* A notify without its try/catch: the error reaches the catch of process.
afterObserverErrorRethrown(name) == "rollback"

\* Subject.notify: the update of an observer threw; the catch logs the error
\* and the loop goes on to the end of notify.
afterObserverError(name) == "done"

\* The UPDATE of InventoryObserver.update is rejected: the observer rethrows,
\* notify logs the error and goes on; the remaining items are not processed
\* and process returns the success result.
CoInventoryFails(c) ==
    /\ co[c].pc = "inventory"
    /\ LET next == afterObserverError("InventoryObserver")
       IN  co' = [co EXCEPT ![c].pc = next, ![c].i = 0,
                            ![c].success = (next = "done"),
                            ![c].error = IF next = "done" THEN @ ELSE "inventory"]
    /\ UNCHANGED <<boot, clockDay, globalEmailQueue, observers, index, productosRows,
                   pedidos, detalle_pedidos, txn, emailQueue>>
    /\ ShopFrame

\* connection.rollback() of the validation branch or of the catch block: the
\* uncommitted rows are discarded and the failure result returned.
CoRollback(c) ==
    /\ co[c].pc = "rollback"
    /\ txn' = [txn EXCEPT ![c] = EmptyTxn]
    /\ co' = [co EXCEPT ![c].pc = "done", ![c].success = FALSE]
    /\ UNCHANGED <<boot, clockDay, globalEmailQueue, observers, index, productosRows,
                   pedidos, detalle_pedidos, emailQueue>>
    /\ ShopFrame

(***************************************************************************)
(* Checkout of a wider catalogue by few calls; ProductIndex.update.         *)
(***************************************************************************)
\* Bound: the number of calls of the specifications SpecSolo and SpecPrice.
MaxSoloCalls == 1

SoloCalls == 1 .. MaxSoloCalls

\* Table productos of SpecSolo: a product with ample stock, a cheap one, one
\* whose price is not a round amount.  precio in cents.
SoloCatalog ==
    [p \in {"p1", "p2", "p3"} |->
        CASE p = "p1" -> [stock |-> 10, precio |-> 10000000]
          [] p = "p2" -> [stock |-> 1,  precio |-> 400000]
          [] p = "p3" -> [stock |-> 10, precio |-> 10000100]]

SoloRequests ==
    { [productos |-> <<Line("p1", 2)>>, metodo_envio |-> "standard"],
      [productos |-> <<Line("p2", 1)>>, metodo_envio |-> "pickup"],
      [productos |-> <<Line("p3", 5)>>, metodo_envio |-> "express"],
      [productos |-> <<Line("p1", 1), Line("p3", 1)>>, metodo_envio |-> "pickup"],
      [productos |-> <<Line("p2", 2)>>, metodo_envio |-> "standard"],
      [productos |-> <<Line("p1", 1)>>, metodo_envio |-> "drone"],
      [productos |-> <<>>, metodo_envio |-> "standard"] }

\* Carts with a quantity that is zero or negative, and carts without one.
QtyRequests ==
    { [productos |-> <<Line("p1", -1)>>, metodo_envio |-> "standard"],
      [productos |-> <<Line("p1", 0)>>, metodo_envio |-> "pickup"],
      [productos |-> <<Line("p1", 1)>>, metodo_envio |-> "standard"],
      [productos |-> <<Line("p1", 2), Line("p2", -1)>>, metodo_envio |-> "express"],
      [productos |-> <<Line("p2", -2)>>, metodo_envio |-> "pickup"],
      [productos |-> <<Line("p3", 0), Line("p1", 1)>>, metodo_envio |-> "standard"],
      [productos |-> <<Line("p2", 2)>>, metodo_envio |-> "standard"] }

\* Prices (in cents) that ProductIndex.update is called with.
IndexPrices == {25000000}

\* ProductIndex.update(id, product) with a record whose price differs.
IndexUpdate(p, precio) ==
    /\ boot = "listening"
    /\ p \in DOMAIN index
    /\ index[p].precio # precio
    /\ index' = [index EXCEPT ![p].precio = precio]
    /\ UNCHANGED <<boot, clockDay, globalEmailQueue, observers, productosRows, pedidos,
                   detalle_pedidos, txn, emailQueue, co>>
    /\ ShopFrame

(***************************************************************************)
(* ProductIndex.reduceStock (ProductIndex.ts).  The method has no await, so *)
(* a call runs to its end within one turn; calls made concurrently run one  *)
(* after another in some order.                                            *)
(***************************************************************************)
\* Bounds: the largest stock, the largest quantity, the number of calls.
MaxIndexStock == 3
MaxReduceQty  == 2
MaxReduceCalls == 3

IndexProducts == {"pa", "pb"}
AbsentProduct == "px"

\* reduceStock without the comparison of stock and quantity.
reduceStockUnchecked(idx, productId, quantity) ==
    IF productId \notin DOMAIN idx
    THEN [ok |-> FALSE, index |-> idx]
    ELSE [ok |-> TRUE, index |-> [idx EXCEPT ![productId].stock = @ - quantity]]

\* reduceStock that also refuses a quantity equal to the stock.
reduceStockStrict(idx, productId, quantity) ==
    IF productId \notin DOMAIN idx
    THEN [ok |-> FALSE, index |-> idx]
    ELSE IF idx[productId].stock <= quantity
    THEN [ok |-> FALSE, index |-> idx]
    ELSE [ok |-> TRUE, index |-> [idx EXCEPT ![productId].stock = @ - quantity]]

\* ProductIndex.reduceStock: false when the product is absent or its stock is
\* below the quantity, otherwise the stock is reduced and true returned.
reduceStock(idx, productId, quantity) ==
    IF productId \notin DOMAIN idx
    THEN [ok |-> FALSE, index |-> idx]
    ELSE IF idx[productId].stock < quantity
    THEN [ok |-> FALSE, index |-> idx]
    ELSE [ok |-> TRUE, index |-> [idx EXCEPT ![productId].stock = @ - quantity]]

\* An index as build leaves it: a record per product, stock >= 0.
IndexInit ==
    /\ stockIndex0 \in [IndexProducts -> [stock : 0 .. MaxIndexStock]]
    /\ stockIndex = stockIndex0
    /\ reduceLog = <<>>

IndexIdle ==
    /\ stockIndex0 = [p \in IndexProducts |-> [stock |-> 0]]
    /\ stockIndex = stockIndex0
    /\ reduceLog = <<>>

ReduceStock(productId, quantity) ==
    /\ Len(reduceLog) < MaxReduceCalls
    /\ LET r == reduceStock(stockIndex, productId, quantity)
       IN  /\ stockIndex' = r.index
           /\ reduceLog' = Append(reduceLog, [productId |-> productId,
                                              quantity |-> quantity, ok |-> r.ok])
    /\ UNCHANGED stockIndex0
    /\ IndexFrame

(***************************************************************************)
(* ProductIndex.validateStock (ProductIndex.ts): a synchronous read of the *)
(* index.                                                                  *)
(***************************************************************************)
\* validateStock that refuses a quantity equal to the stock.
validateStockStrict(idx, productId, quantity) ==
    IF productId \notin DOMAIN idx
    THEN FALSE
    ELSE idx[productId].stock > quantity

\* ProductIndex.validateStock: false when index.get gives nothing, otherwise
\* product.stock >= quantity.
validateStock(idx, productId, quantity) ==
    IF productId \notin DOMAIN idx
    THEN FALSE
    ELSE idx[productId].stock >= quantity

QueryIdle == stockQuery = <<>>

\* A validateStock call: the method assigns nothing.
ValidateStock(productId, quantity) ==
    /\ stockQuery' = <<[productId |-> productId, quantity |-> quantity,
                        result |-> validateStock(stockIndex, productId, quantity)]>>
    /\ UNCHANGED indexVars
    /\ ValidateFrame

(***************************************************************************)
(* OrderService.getById (order.service.ts) with the order cache.  The     *)
(* method gives way at pool.getConnection and at each of its two SELECTs;  *)
(* both read committed rows without locking.  An order written by checkout *)
(* has at least one line, so a cached view built by getById passes the     *)
(* test on cached.detalles.                                                *)
(***************************************************************************)
ORDER_CACHE_CAPACITY == 50

\* Bounds: getById calls and, in SpecCache, updateStatus calls.
MaxGets == 2
MaxCacheUpdates == 1

GetCalls == 1 .. MaxGets
CacheUpdateCalls == 1 .. MaxCacheUpdates

\* usuario_id of the stored orders; who asks: the owner, another customer,
\* an administrator.
OrderOwner == [o \in StoredOrders |-> "u1"]
Requesters == {[userId |-> "u1", isAdmin |-> FALSE],
               [userId |-> "u2", isAdmin |-> FALSE],
               [userId |-> "admin1", isAdmin |-> TRUE]}

\* A call: its arguments, the row its first SELECT returned, its outcome,
\* and two notes taken when it was made: the committed status of the order
\* and whether every other call had returned, one of them a successful
\* updateStatus of the order.
IdleGet ==
    [pc |-> "idle", orderId |-> None, userId |-> None, isAdmin |-> FALSE,
     row |-> None, success |-> FALSE, estado |-> None, error |-> None,
     committed |-> None, afterUpdate |-> FALSE]

CacheInit ==
    /\ orderCache = <<>>
    /\ gb = [g \in GetCalls |-> IdleGet]

\* No other call is between its start and its return, and an updateStatus on
\* the order has returned success.
Quiescent(orderId) ==
    /\ \A u \in UpdateCalls : us[u].pc \in {"idle", "done"}
    /\ \A h \in GetCalls : gb[h].pc \in {"idle", "done"}
    /\ \E u \in UpdateCalls : us[u].pc = "done" /\ us[u].success /\ us[u].orderId = orderId

\* A test that lets every customer through.
mayViewAny(isAdmin, usuario_id, userId) == TRUE

\* The test of both branches of getById: an administrator or the owner.
mayView(isAdmin, usuario_id, userId) == isAdmin \/ usuario_id = userId

\* The controller calls getById; the calls are numbered in the order made.
GbBegin(g, orderId, who) ==
    /\ gb[g].pc = "idle"
    /\ g > 1 => gb[g - 1].pc # "idle"
    /\ gb' = [gb EXCEPT ![g] =
                [IdleGet EXCEPT !.pc = "cache", !.orderId = orderId,
                                !.userId = who.userId, !.isAdmin = who.isAdmin,
                                !.committed = IF orderId \in StoredOrders
                                              THEN pedidosEstado[orderId] ELSE None,
                                !.afterUpdate = Quiescent(orderId)]]
    /\ UNCHANGED <<orderCache, statusVars>>
    /\ StoreFrame

\* With the connection: orderCache.get; a view found is returned, or refused
\* to a customer who does not own it.
GbCache(g) ==
    /\ gb[g].pc = "cache"
    /\ LET r == LRUCacheGet(orderCache, gb[g].orderId)
       IN  /\ orderCache' = r.cache
           /\ gb' = [gb EXCEPT ![g] =
                       IF ~LRUCacheHas(orderCache, @.orderId)
                       THEN [@ EXCEPT !.pc = "select"]
                       ELSE IF ~mayView(@.isAdmin, r.value.usuario_id, @.userId)
                       THEN [@ EXCEPT !.pc = "done", !.error = "forbidden"]
                       ELSE [@ EXCEPT !.pc = "done", !.success = TRUE,
                                      !.estado = r.value.estado]]
    /\ UNCHANGED statusVars
    /\ StoreFrame

\* SELECT ... FROM pedidos p INNER JOIN usuarios u ... WHERE p.id = ?
GbSelect(g) ==
    /\ gb[g].pc = "select"
    /\ gb' = [gb EXCEPT ![g] =
                IF @.orderId \notin StoredOrders
                THEN [@ EXCEPT !.pc = "done", !.error = "not_found"]
                ELSE IF ~mayView(@.isAdmin, OrderOwner[@.orderId], @.userId)
                THEN [@ EXCEPT !.pc = "done", !.error = "forbidden"]
                ELSE [@ EXCEPT !.pc = "details",
                               !.row = [estado |-> pedidosEstado[gb[g].orderId],
                                        usuario_id |-> OrderOwner[gb[g].orderId]]]]
    /\ UNCHANGED <<orderCache, statusVars>>
    /\ StoreFrame

\* SELECT ... FROM detalle_pedidos returns; the view is built from the row
\* read before, stored in the cache and returned.
GbDetails(g) ==
    /\ gb[g].pc = "details"
    /\ orderCache' = LRUCacheSet(orderCache, ORDER_CACHE_CAPACITY, gb[g].orderId, gb[g].row)
    /\ gb' = [gb EXCEPT ![g].pc = "done", ![g].success = TRUE,
                        ![g].estado = gb[g].row.estado]
    /\ UNCHANGED statusVars
    /\ StoreFrame

\* One of the two SELECTs is rejected by the store: the error is rethrown.
GbQueryFails(g) ==
    /\ gb[g].pc \in {"select", "details"}
    /\ gb' = [gb EXCEPT ![g].pc = "done", ![g].error = "db_error"]
    /\ UNCHANGED <<orderCache, statusVars>>
    /\ StoreFrame

(***************************************************************************)
(* EmailWorker (email.worker.ts).  setInterval calls processQueue at each   *)
(* tick.  The method runs without giving way from its entry to the first    *)
(* await of sendEmail, and from the return of a sendEmail to the next one   *)
(* or to the catch and finally blocks.  sendEmail stands for the delivery   *)
(* to an outside channel: it returns or it rejects.                         *)
(***************************************************************************)
\* Bound: the tasks enqueued while the worker runs.
MaxEmailTasks == 3

EmailTypes == {"order_confirmation", "order_status_change", "welcome"}

\* Entry of processQueue without the test of isProcessing.
processQueueEntryNoFlag(busy, queue) ==
    IF Len(queue) = 0 THEN "empty"
    ELSE "started"

\* Entry of processQueue: return when a run is in progress, return when the
\* queue is empty, otherwise begin a run.
processQueueEntry(busy, queue) ==
    IF busy THEN "skipped"
    ELSE IF Len(queue) = 0 THEN "empty"
    ELSE "started"

\* After emailWorker.start(): empty queue, no run.
WorkerInit ==
    /\ workerQueue = <<>>
    /\ isProcessing = FALSE
    /\ sending = <<>>
    /\ enqueued = 0
    /\ lastStep = "start"

\* Queue.enqueue by an observer or a service.
Enqueue(type) ==
    /\ enqueued < MaxEmailTasks
    /\ enqueued' = enqueued + 1
    /\ workerQueue' = Append(workerQueue, [id |-> enqueued + 1, type |-> type])
    /\ lastStep' = "enqueue"
    /\ UNCHANGED <<isProcessing, sending>>
    /\ WorkerFrame

\* A tick of the interval: processQueue up to its first await or return.
Tick ==
    LET entry == processQueueEntry(isProcessing, workerQueue)
    IN  /\ lastStep' = entry
        /\ IF entry = "started"
           THEN /\ isProcessing' = TRUE
                /\ sending' = Append(sending, Head(workerQueue))
                /\ workerQueue' = Tail(workerQueue)
           ELSE UNCHANGED <<isProcessing, sending, workerQueue>>
        /\ UNCHANGED enqueued
        /\ WorkerFrame

\* A finally block that is reached only when the try block ends.
processQueueFinallyTryOnly(outcome) ==
    IF outcome = "error" THEN TRUE ELSE FALSE

\* The finally block of processQueue: isProcessing after a run that ended
\* with the given outcome.
processQueueFinally(outcome) == FALSE

\* The sendEmail of run i returns: the next task is dequeued and sent, or the
\* loop ends and finally clears isProcessing.
Sent(i) ==
    /\ i \in 1 .. Len(sending)
    /\ IF Len(workerQueue) > 0
       THEN /\ sending' = [sending EXCEPT ![i] = Head(workerQueue)]
            /\ workerQueue' = Tail(workerQueue)
            /\ lastStep' = "next"
            /\ UNCHANGED isProcessing
       ELSE /\ sending' = SubSeq(sending, 1, i - 1) \o SubSeq(sending, i + 1, Len(sending))
            /\ isProcessing' = processQueueFinally("drained")
            /\ lastStep' = "finished"
            /\ UNCHANGED workerQueue
    /\ UNCHANGED enqueued
    /\ WorkerFrame

\* The sendEmail of run i rejects: the rejection leaves the while loop for
\* the catch block around it, which logs it; finally clears isProcessing.
SendFails(i) ==
    /\ i \in 1 .. Len(sending)
    /\ sending' = SubSeq(sending, 1, i - 1) \o SubSeq(sending, i + 1, Len(sending))
    /\ isProcessing' = processQueueFinally("error")
    /\ lastStep' = "failed"
    /\ UNCHANGED <<workerQueue, enqueued>>
    /\ WorkerFrame

(***************************************************************************)
(* ProductService.create and ProductService.update (product.service.ts):   *)
(* the administrative edits of the productos table.                        *)
(***************************************************************************)
\* Bound: the largest stock an edit sets.
MaxAdminStock == 2

NewProduct == "p9"
AdminPrices == {400000, 500000}

\* An UpdateProductDTO: the fields that are not undefined, and the values of
\* precio and stock when they are among them.
UpdateData ==
    [fields : SUBSET {"precio", "stock", "nombre"}, precio : AdminPrices,
     stock : 0 .. MaxAdminStock]

NoAdminOp == [kind |-> "none", id |-> None, success |-> FALSE, statusCode |-> 0]

AdminInit == adminOp = NoAdminOp

\* The rows of productos after UPDATE productos SET <the given fields>.
updateRow(row, data) ==
    [row EXCEPT !.precio = IF "precio" \in data.fields THEN data.precio ELSE @,
                !.stock  = IF "stock" \in data.fields THEN data.stock ELSE @]

\* ProductService.update: 404 when the SELECT finds no row, 400 when no field
\* is given, otherwise the UPDATE and the success message.
ProductUpdate(id, data) ==
    /\ boot = "listening"
    /\ IF id \notin DOMAIN productosRows
       THEN /\ adminOp' = [kind |-> "update", id |-> id, success |-> FALSE, statusCode |-> 404]
            /\ UNCHANGED productosRows
       ELSE IF data.fields = {}
       THEN /\ adminOp' = [kind |-> "update", id |-> id, success |-> FALSE, statusCode |-> 400]
            /\ UNCHANGED productosRows
       ELSE /\ adminOp' = [kind |-> "update", id |-> id, success |-> TRUE, statusCode |-> 200]
            /\ productosRows' = [productosRows EXCEPT ![id] = updateRow(@, data)]
    /\ UNCHANGED <<boot, clockDay, globalEmailQueue, observers, index, pedidos,
                   detalle_pedidos, txn, emailQueue, co>>
    /\ AdminFrame

\* ProductService.create: 400 for a negative price or a stock that is not a
\* non-negative integer, otherwise the INSERT of a row with a fresh id.
ProductCreate(precio, stock) ==
    /\ boot = "listening"
    /\ NewProduct \notin DOMAIN productosRows
    /\ IF precio < 0 \/ stock < 0
       THEN /\ adminOp' = [kind |-> "create", id |-> None, success |-> FALSE, statusCode |-> 400]
            /\ UNCHANGED productosRows
       ELSE /\ adminOp' = [kind |-> "create", id |-> NewProduct, success |-> TRUE,
                           statusCode |-> 201]
            /\ productosRows' =
                  [p \in DOMAIN productosRows \cup {NewProduct} |->
                      IF p = NewProduct THEN [stock |-> stock, precio |-> precio]
                      ELSE productosRows[p]]
    /\ UNCHANGED <<boot, clockDay, globalEmailQueue, observers, index, pedidos,
                   detalle_pedidos, txn, emailQueue, co>>
    /\ AdminFrame

\* A statement of either method is rejected by the store: the error is thrown
\* to the controller.
ProductWriteFails(kind) ==
    /\ boot = "listening"
    /\ adminOp' = [kind |-> kind, id |-> None, success |-> FALSE, statusCode |-> 500]
    /\ UNCHANGED shopVars
    /\ AdminFrame

(***************************************************************************)
(* ProductIndex.build (ProductIndex.ts) called again on a running server,  *)
(* after ProductService calls have changed the rows of productos.  The map *)
(* is cleared and filled in the turn in which the SELECT resolves.         *)
(***************************************************************************)
\* Bound: the number of build calls.
MaxBuilds == 2

\* The ProductService calls tried between two builds.
BuildEdits ==
    {[fields |-> {"stock"}, precio |-> 400000, stock |-> 0],
     [fields |-> {"precio"}, precio |-> 500000, stock |-> 0]}

BuildIdle == buildOp = [n |-> 0, ok |-> FALSE, size |-> 0]

\* ProductService.delete: 404 when the SELECT finds no row, otherwise the
\* DELETE (no order refers to the product here) and the success message.
ProductDelete(id) ==
    /\ boot = "listening"
    /\ IF id \notin DOMAIN productosRows
       THEN /\ adminOp' = [kind |-> "delete", id |-> id, success |-> FALSE, statusCode |-> 404]
            /\ UNCHANGED productosRows
       ELSE /\ adminOp' = [kind |-> "delete", id |-> id, success |-> TRUE, statusCode |-> 200]
            /\ productosRows' = [p \in DOMAIN productosRows \ {id} |-> productosRows[p]]
    /\ UNCHANGED <<boot, clockDay, globalEmailQueue, observers, index, pedidos,
                   detalle_pedidos, txn, emailQueue, co, buildOp>>
    /\ BuildFrame

\* A build call that resolves.
Build ==
    /\ boot = "listening"
    /\ buildOp.n < MaxBuilds
    /\ LET r == build(index, productosRows)
       IN  /\ index' = r.index
           /\ buildOp' = [n |-> buildOp.n + 1, ok |-> TRUE, size |-> r.size]
    /\ UNCHANGED <<boot, clockDay, globalEmailQueue, observers, productosRows, pedidos,
                   detalle_pedidos, txn, emailQueue, co, adminOp>>
    /\ BuildFrame

\* pool.getConnection or the SELECT rejects: build rethrows before it has
\* touched the map.
BuildFails ==
    /\ boot = "listening"
    /\ buildOp.n < MaxBuilds
    /\ buildOp' = [n |-> buildOp.n + 1, ok |-> FALSE, size |-> 0]
    /\ UNCHANGED <<shopVars, adminOp>>
    /\ BuildFrame

(***************************************************************************)
(* The connections of the pool (config/database.ts) as CheckoutFacade      *)
(* .process uses them: one for the whole call, a second one inside         *)
(* getAutomaticDiscounts and a second one inside InventoryObserver.update, *)
(* each awaited while the first is held.  The pool is created without a    *)
(* queue limit or a timeout: a getConnection that finds no free connection *)
(* waits, first come first served, until one is released.                  *)
(***************************************************************************)
\* Bounds: the connections of the pool, the number of checkout calls.
PoolSize     == 2
MaxPoolCalls == 3

PoolCalls == 1 .. MaxPoolCalls

\* The connections a call holds at each point of process.
Holds(pc) ==
    CASE pc \in {"process", "wait_discounts", "persist", "wait_inventory"} -> 1
      [] pc \in {"discounts", "inventory"} -> 2
      [] OTHER -> 0

\* Where a call goes on once the connection it waits for is handed to it.
Granted(pc) ==
    CASE pc = "wait_process" -> "process"
      [] pc = "wait_discounts" -> "discounts"
      [] pc = "wait_inventory" -> "inventory"
      [] OTHER -> pc

\* pool.getConnection() by call c, which goes on at pc `wait` if it has to
\* wait: a free connection is taken, otherwise the call joins the queue.
getConnection(st, c, wait) ==
    IF st.free > 0
    THEN [free |-> st.free - 1, queue |-> st.queue,
          pcs |-> [st.pcs EXCEPT ![c] = Granted(wait)]]
    ELSE [free |-> st.free, queue |-> Append(st.queue, c),
          pcs |-> [st.pcs EXCEPT ![c] = wait]]

\* connection.release(): the connection goes to the first call of the queue,
\* or back to the pool when no call waits.
release(st) ==
    IF st.queue # <<>>
    THEN [free |-> st.free, queue |-> Tail(st.queue),
          pcs |-> [st.pcs EXCEPT ![Head(st.queue)] = Granted(@)]]
    ELSE [free |-> st.free + 1, queue |-> st.queue, pcs |-> st.pcs]

PoolState == [free |-> poolFree, queue |-> poolQueue, pcs |-> poolPc]

PoolBecomes(st) ==
    /\ poolFree' = st.free
    /\ poolQueue' = st.queue
    /\ poolPc' = st.pcs
    /\ PoolFrame

PoolIdle ==
    /\ poolFree = PoolSize
    /\ poolQueue = <<>>
    /\ poolPc = [c \in PoolCalls |-> "idle"]

\* process starts: const connection = await pool.getConnection().
PoolStart(c) ==
    /\ poolPc[c] = "idle"
    /\ \A b \in PoolCalls : b < c => poolPc[b] # "idle"
    /\ PoolBecomes(getConnection(PoolState, c, "wait_process"))

\* validateProducts fails: rollback, finally releases the connection and the
\* failure is returned.
PoolValidationFails(c) ==
    /\ poolPc[c] = "process"
    /\ PoolBecomes(release([PoolState EXCEPT !.pcs[c] = "failed"]))

\* The cart is valid: getAutomaticDiscounts awaits pool.getConnection()
\* while process holds its connection.
PoolDiscounts(c) ==
    /\ poolPc[c] = "process"
    /\ PoolBecomes(getConnection(PoolState, c, "wait_discounts"))

\* The COUNT query returns (or is rejected); finally releases the second
\* connection and process goes on to the INSERTs and the commit.
PoolDiscountsDone(c) ==
    /\ poolPc[c] = "discounts"
    /\ PoolBecomes(release([PoolState EXCEPT !.pcs[c] = "persist"]))

\* A statement of the transaction is rejected: catch, rollback, finally
\* releases the connection.
PoolPersistFails(c) ==
    /\ poolPc[c] = "persist"
    /\ PoolBecomes(release([PoolState EXCEPT !.pcs[c] = "failed"]))

\* After the commit notify calls InventoryObserver.update, which awaits
\* pool.getConnection() while process holds its connection.
PoolInventory(c) ==
    /\ poolPc[c] = "persist"
    /\ PoolBecomes(getConnection(PoolState, c, "wait_inventory"))

\* The UPDATEs return (or one is rejected): the observer releases its
\* connection, notify ends, process returns and releases its own.
PoolInventoryDone(c) ==
    /\ poolPc[c] = "inventory"
    /\ PoolBecomes(release(release([PoolState EXCEPT !.pcs[c] = "done"])))

(***************************************************************************)
(* Shipping cost calls and the Queue class on their own.                   *)
(***************************************************************************)
\* Bounds: lines of the cart handed to calculateCost, units per line.
MaxShipLines == 2
MaxShipQty   == 2

ShipPrices == {400000, 10000000}
ShipItems ==
    [producto_id : {"p1", "p2"}, cantidad : 1 .. MaxShipQty, precio : ShipPrices]
ShipCarts == UNION {[1 .. n -> ShipItems] : n \in 0 .. MaxShipLines}

ShipIdle ==
    /\ shipIn = None
    /\ shipOut = <<>>

\* A strategy made by the factory and a cart; no call yet.
ShipInit ==
    /\ shipIn \in [strategy : ShippingTypes, items : ShipCarts]
    /\ shipOut = <<>>

\* strategy.calculateCost(items)
ShipCalculate ==
    /\ Len(shipOut) = 0
    /\ shipOut' = <<calculateCost(shipIn.strategy, shipIn.items)>>
    /\ UNCHANGED shipIn
    /\ ShipFrame

\* Bound: the enqueue calls made.
MaxPushes == 4

\* Queue.enqueue: items.push(item)
QueueEnqueue(items, item) == Append(items, item)

\* A dequeue that takes the element pushed last.
QueueDequeueLast(items) ==
    IF Len(items) = 0
    THEN [result |-> <<>>, items |-> items]
    ELSE [result |-> <<items[Len(items)]>>, items |-> SubSeq(items, 1, Len(items) - 1)]

\* Queue.dequeue: items.shift(), undefined (here <<>>) on an empty array.
QueueDequeue(items) ==
    IF Len(items) = 0
    THEN [result |-> <<>>, items |-> items]
    ELSE [result |-> <<Head(items)>>, items |-> Tail(items)]

\* Queue.size and Queue.isEmpty
QueueSize(items) == Len(items)
QueueIsEmpty(items) == Len(items) = 0

\* new Queue(): no element.  The calls and their results are noted; the
\* tasks enqueued are numbered in the order of the calls.
QueueInit ==
    /\ queueItems = <<>>
    /\ queueOp = [kind |-> "none", result |-> <<>>]
    /\ pushes = 0
    /\ pops = 0

Enqueues(type) ==
    /\ pushes < MaxPushes
    /\ queueItems' = QueueEnqueue(queueItems, [id |-> pushes + 1, type |-> type])
    /\ queueOp' = [kind |-> "enqueue", result |-> <<>>]
    /\ pushes' = pushes + 1
    /\ UNCHANGED pops
    /\ QueueFrame

Dequeues ==
    LET r == QueueDequeue(queueItems)
    IN  /\ queueItems' = r.items
        /\ queueOp' = [kind |-> "dequeue", result |-> r.result]
        /\ pops' = pops + Len(r.result)
        /\ UNCHANGED pushes
        /\ QueueFrame

Sizes ==
    /\ queueOp' = [kind |-> "size",
                   result |-> <<QueueSize(queueItems), QueueIsEmpty(queueItems)>>]
    /\ UNCHANGED <<queueItems, pushes, pops>>
    /\ QueueFrame

\* No call of the later sections has been made.
RestIdle == QueryIdle /\ BuildIdle /\ PoolIdle

(***************************************************************************)
(* Specifications.                                                         *)
(***************************************************************************)
NextOrder ==
    \E nuevoEstado \in OrderStatus, adminId \in Admins \cup {None} :
        CambiarEstado(nuevoEstado, adminId)

InitOrder == OrderInit /\ FoldIdle /\ StatusIdle /\ ShopInit /\ IndexIdle /\ LruInit /\ CacheInit
    /\ WorkerInit /\ AdminInit /\ ShipIdle /\ QueueInit /\ RestIdle

SpecOrder == InitOrder /\ [][NextOrder]_vars

NextFold ==
    \/ EngineFold
    \/ AnyFold
    \/ FoldReset

InitFold == OrderIdle /\ FoldIdle /\ StatusIdle /\ ShopInit /\ IndexIdle /\ LruInit /\ CacheInit
    /\ WorkerInit /\ AdminInit /\ ShipIdle /\ QueueInit /\ RestIdle

SpecFold == InitFold /\ [][NextFold]_vars

NextStatus ==
    \E c \in UpdateCalls :
        \/ \E orderId \in StoredOrders \cup {UnknownOrder}, estado \in OrderStatus,
              adminId \in StatusAdmins : UsBegin(c, orderId, estado, adminId)
        \/ UsSelectMissing(c)
        \/ UsSelect(c)
        \/ UsUpdate(c)
        \/ UsUpdateFails(c)
        \/ UsCommit(c)
        \/ UsFinish(c)
        \/ UsRollback(c)

InitStatus == OrderIdle /\ FoldIdle /\ StatusInit /\ ShopInit /\ IndexIdle /\ LruInit /\ CacheInit
    /\ WorkerInit /\ AdminInit /\ ShipIdle /\ QueueInit /\ RestIdle

SpecStatus == InitStatus /\ [][NextStatus]_vars

Next ==
    \/ LoadModules
    \/ \E d \in DaysTried : StartServer(d)
    \/ \E c \in CheckoutCalls :
        \/ \E usuario_id \in Users, data \in CheckoutRequests : CoBegin(c, usuario_id, data)
        \/ CoPrice(c)
        \/ \E n \in 0 .. Len(co[c].productosConDetalles) : CoInsertFails(c, n)
        \/ CoCommit(c)
        \/ CoCommitFails(c)
        \/ CoUserQueryFails(c)
        \/ CoInventory(c)
        \/ CoInventoryFails(c)
        \/ CoRollback(c)

Init == OrderIdle /\ FoldIdle /\ StatusIdle /\ ShopInit /\ IndexIdle /\ LruInit /\ CacheInit
    /\ WorkerInit /\ AdminInit /\ ShipIdle /\ QueueInit /\ RestIdle

Spec == Init /\ [][Next]_vars

NextSolo ==
    \/ LoadModules
    \/ \E d \in DaysTried : StartServer(d)
    \/ \E c \in SoloCalls :
        \/ \E usuario_id \in Users, data \in SoloRequests : CoBegin(c, usuario_id, data)
        \/ CoPrice(c)
        \/ \E n \in 0 .. Len(co[c].productosConDetalles) : CoInsertFails(c, n)
        \/ CoCommit(c)
        \/ CoCommitFails(c)
        \/ CoUserQueryFails(c)
        \/ CoInventory(c)
        \/ CoInventoryFails(c)
        \/ CoRollback(c)

InitSolo == OrderIdle /\ FoldIdle /\ StatusIdle /\ ShopStart(SoloCatalog) /\ IndexIdle /\ LruInit /\ CacheInit
    /\ WorkerInit /\ AdminInit /\ ShipIdle /\ QueueInit /\ RestIdle

SpecSolo == InitSolo /\ [][NextSolo]_vars

NextPrice ==
    \/ LoadModules
    \/ \E d \in DaysTried : StartServer(d)
    \/ \E p \in DOMAIN Catalog, precio \in IndexPrices : IndexUpdate(p, precio)
    \/ \E c \in SoloCalls :
        \/ \E usuario_id \in Users, data \in CheckoutRequests : CoBegin(c, usuario_id, data)
        \/ CoPrice(c)
        \/ \E n \in 0 .. Len(co[c].productosConDetalles) : CoInsertFails(c, n)
        \/ CoCommit(c)
        \/ CoCommitFails(c)
        \/ CoUserQueryFails(c)
        \/ CoInventory(c)
        \/ CoInventoryFails(c)
        \/ CoRollback(c)

InitPrice == OrderIdle /\ FoldIdle /\ StatusIdle /\ ShopStart(Catalog) /\ IndexIdle /\ LruInit /\ CacheInit
    /\ WorkerInit /\ AdminInit /\ ShipIdle /\ QueueInit /\ RestIdle

SpecPrice == InitPrice /\ [][NextPrice]_vars

NextIndex ==
    \E productId \in IndexProducts \cup {AbsentProduct}, quantity \in 1 .. MaxReduceQty :
        ReduceStock(productId, quantity)

InitIndex == OrderIdle /\ FoldIdle /\ StatusIdle /\ ShopInit /\ IndexInit /\ LruInit /\ CacheInit
    /\ WorkerInit /\ AdminInit /\ ShipIdle /\ QueueInit /\ RestIdle

SpecIndex == InitIndex /\ [][NextIndex]_vars

NextLru ==
    \/ \E key \in LruKeys : LruGet(key)
    \/ \E key \in LruKeys, value \in LruValues : LruSet(key, value)
    \/ \E key \in LruKeys : LruHas(key)
    \/ \E key \in LruKeys : LruDelete(key)

InitLru == OrderIdle /\ FoldIdle /\ StatusIdle /\ ShopInit /\ IndexIdle /\ LruInit /\ CacheInit
    /\ WorkerInit /\ AdminInit /\ ShipIdle /\ QueueInit /\ RestIdle

SpecLru == InitLru /\ [][NextLru]_vars

NextCache ==
    \/ \E c \in CacheUpdateCalls :
        \/ \E orderId \in StoredOrders \cup {UnknownOrder}, estado \in OrderStatus,
              adminId \in StatusAdmins : UsBegin(c, orderId, estado, adminId)
        \/ UsSelectMissing(c)
        \/ UsSelect(c)
        \/ UsUpdate(c)
        \/ UsUpdateFails(c)
        \/ UsCommit(c)
        \/ UsFinish(c)
        \/ UsRollback(c)
    \/ \E g \in GetCalls :
        \/ \E orderId \in StoredOrders \cup {UnknownOrder}, who \in Requesters :
              GbBegin(g, orderId, who)
        \/ GbCache(g)
        \/ GbSelect(g)
        \/ GbDetails(g)
        \/ GbQueryFails(g)

InitCache == OrderIdle /\ FoldIdle /\ StatusInit /\ ShopInit /\ IndexIdle /\ LruInit /\ CacheInit
    /\ WorkerInit /\ AdminInit /\ ShipIdle /\ QueueInit /\ RestIdle

SpecCache == InitCache /\ [][NextCache]_vars

\* getById calls alone.
NextAccess ==
    \E g \in GetCalls :
        \/ \E orderId \in StoredOrders \cup {UnknownOrder}, who \in Requesters :
              GbBegin(g, orderId, who)
        \/ GbCache(g)
        \/ GbSelect(g)
        \/ GbDetails(g)
        \/ GbQueryFails(g)

InitAccess == OrderIdle /\ FoldIdle /\ StatusInit /\ ShopInit /\ IndexIdle /\ LruInit /\ CacheInit
    /\ WorkerInit /\ AdminInit /\ ShipIdle /\ QueueInit /\ RestIdle

SpecAccess == InitAccess /\ [][NextAccess]_vars

NextWorker ==
    \/ \E type \in EmailTypes : Enqueue(type)
    \/ Tick
    \/ \E i \in 1 .. MaxEmailTasks : Sent(i)
    \/ \E i \in 1 .. MaxEmailTasks : SendFails(i)

InitWorker == OrderIdle /\ FoldIdle /\ StatusIdle /\ ShopInit /\ IndexIdle /\ LruInit /\ CacheInit
    /\ WorkerInit /\ AdminInit /\ ShipIdle /\ QueueInit /\ RestIdle

SpecWorker == InitWorker /\ [][NextWorker]_vars

NextAdmin ==
    \/ LoadModules
    \/ \E d \in DaysTried : StartServer(d)
    \/ \E id \in DOMAIN Catalog \cup {NewProduct, "p0"}, data \in UpdateData :
          ProductUpdate(id, data)
    \/ \E precio \in AdminPrices \cup {-100}, stock \in -1 .. MaxAdminStock :
          ProductCreate(precio, stock)
    \/ \E kind \in {"update", "create"} : ProductWriteFails(kind)

InitAdmin == OrderIdle /\ FoldIdle /\ StatusIdle /\ ShopInit /\ IndexIdle /\ LruInit /\ CacheInit
    /\ WorkerInit /\ AdminInit /\ ShipIdle /\ QueueInit /\ RestIdle

SpecAdmin == InitAdmin /\ [][NextAdmin]_vars

NextShipping == ShipCalculate

InitShipping == OrderIdle /\ FoldIdle /\ StatusIdle /\ ShopInit /\ IndexIdle /\ LruInit /\ CacheInit
    /\ WorkerInit /\ AdminInit /\ ShipInit /\ QueueInit /\ RestIdle

SpecShipping == InitShipping /\ [][NextShipping]_vars

NextQueue ==
    \/ \E type \in EmailTypes : Enqueues(type)
    \/ Dequeues
    \/ Sizes

InitQueue == OrderIdle /\ FoldIdle /\ StatusIdle /\ ShopInit /\ IndexIdle /\ LruInit /\ CacheInit
    /\ WorkerInit /\ AdminInit /\ ShipIdle /\ QueueInit /\ RestIdle

SpecQueue == InitQueue /\ [][NextQueue]_vars

NextValidate ==
    \E productId \in IndexProducts \cup {AbsentProduct}, quantity \in 0 .. MaxIndexStock + 1 :
        ValidateStock(productId, quantity)

InitValidate == OrderIdle /\ FoldIdle /\ StatusIdle /\ ShopInit /\ IndexInit /\ LruInit /\ CacheInit
    /\ WorkerInit /\ AdminInit /\ ShipIdle /\ QueueInit /\ RestIdle

SpecValidate == InitValidate /\ [][NextValidate]_vars

NextBuild ==
    \/ LoadModules
    \/ \E d \in DaysTried : StartServer(d)
    \/ \E id \in DOMAIN Catalog, data \in BuildEdits : ProductUpdate(id, data)
    \/ ProductCreate(400000, 1)
    \/ \E id \in DOMAIN Catalog \cup {NewProduct} : ProductDelete(id)
    \/ Build
    \/ BuildFails

InitBuild == OrderIdle /\ FoldIdle /\ StatusIdle /\ ShopInit /\ IndexIdle /\ LruInit /\ CacheInit
    /\ WorkerInit /\ AdminInit /\ ShipIdle /\ QueueInit /\ RestIdle

SpecBuild == InitBuild /\ [][NextBuild]_vars

NextQty ==
    \/ LoadModules
    \/ \E d \in DaysTried : StartServer(d)
    \/ \E c \in SoloCalls :
        \/ \E usuario_id \in Users, data \in QtyRequests : CoBegin(c, usuario_id, data)
        \/ CoPrice(c)
        \/ \E n \in 0 .. Len(co[c].productosConDetalles) : CoInsertFails(c, n)
        \/ CoCommit(c)
        \/ CoCommitFails(c)
        \/ CoUserQueryFails(c)
        \/ CoInventory(c)
        \/ CoInventoryFails(c)
        \/ CoRollback(c)

InitQty == OrderIdle /\ FoldIdle /\ StatusIdle /\ ShopStart(SoloCatalog) /\ IndexIdle /\ LruInit /\ CacheInit
    /\ WorkerInit /\ AdminInit /\ ShipIdle /\ QueueInit /\ RestIdle

SpecQty == InitQty /\ [][NextQty]_vars

NextPool ==
    \E c \in PoolCalls :
        \/ PoolStart(c)
        \/ PoolValidationFails(c)
        \/ PoolDiscounts(c)
        \/ PoolDiscountsDone(c)
        \/ PoolPersistFails(c)
        \/ PoolInventory(c)
        \/ PoolInventoryDone(c)

InitPool == OrderIdle /\ FoldIdle /\ StatusIdle /\ ShopInit /\ IndexIdle /\ LruInit /\ CacheInit
    /\ WorkerInit /\ AdminInit /\ ShipIdle /\ QueueInit /\ RestIdle

SpecPool == InitPool /\ [][NextPool]_vars

\* The interval keeps ticking and every sendEmail returns or rejects.
SpecWorkerFair ==
    /\ SpecWorker
    /\ WF_vars(Tick)
    /\ WF_vars(\E i \in 1 .. MaxEmailTasks : Sent(i) \/ SendFails(i))

(***************************************************************************)
(* Properties.                                                             *)
(***************************************************************************)
\* C1: in every reachable state the stock of every product in the index is
\* >= 0, whatever the sequence or interleaving of checkout calls.
C1_IndexStockNeverNegative ==
    \A p \in DOMAIN index : index[p].stock >= 0

\* The four transitions of the state machine, as the specification lists them.
LegalPairs ==
    {<<PROCESANDO, ENVIADO>>, <<PROCESANDO, CANCELADO>>,
     <<ENVIADO, COMPLETADO>>, <<ENVIADO, CANCELADO>>}

Last(q) == q[Len(q)]

\* C2: every change of an order's committed status is one of the four legal
\* transitions, whatever the interleaving of updateStatus calls; a completed
\* or cancelled row never changes again.
C2_CommittedTransitionsLegal ==
    [][\A o \in StoredOrders :
          pedidosEstado'[o] # pedidosEstado[o]
              => <<pedidosEstado[o], pedidosEstado'[o]>> \in LegalPairs]_vars

\* C3: cambiarEstado succeeds exactly on the four legal pairs (so never from
\* completado or cancelado and never to the current status); on success the
\* entity carries the requested status.
C3_CambiarEstadoIffLegal ==
    entOp.op = "cambiarEstado"
        => /\ ~entOp.threw <=> <<entOp.from, entOp.req>> \in LegalPairs
           /\ ~entOp.threw => ent.estado = entOp.req
           /\ entOp.from = entOp.req => entOp.threw
           /\ entOp.from \in {COMPLETADO, CANCELADO} => entOp.threw

\* Every one of the sixteen pairs is exercised; this one is the same-status
\* request on a processing order.
C3_Witness ==
    /\ entOp.op = "cambiarEstado"
    /\ entOp.from = PROCESANDO /\ entOp.req = PROCESANDO /\ entOp.threw
    /\ Len(ent.historial_estados) = 1

\* C4: an updateStatus call whose request is illegal for the status it loaded
\* returns the invalid-transition failure, its Order entity is as loaded, and
\* none of its steps changes the persisted row or the service's history stack.
C4_IllegalRequestChangesNothing ==
    /\ [](\A c \in UpdateCalls :
            (us[c].read \in OrderStatus /\ <<us[c].read, us[c].estado>> \notin LegalPairs)
                => /\ us[c].order = NewOrder(us[c].read)
                   /\ us[c].pc \in {"rollback", "done"}
                   /\ us[c].pc = "done"
                        => /\ ~us[c].success
                           /\ us[c].message = "No se puede cambiar de estado")
    /\ [][\A c \in UpdateCalls :
            (us'[c] # us[c] /\ us'[c].read \in OrderStatus
                /\ <<us'[c].read, us'[c].estado>> \notin LegalPairs)
                => /\ pedidosEstado' = pedidosEstado
                   /\ statusHistoryStacks' = statusHistoryStacks]_vars

\* updateStatus(enviado) on a completed order has returned its failure.
C4_Witness ==
    \E c \in UpdateCalls :
        /\ us[c].pc = "done" /\ us[c].read = COMPLETADO /\ us[c].estado = ENVIADO
        /\ ~us[c].success
        /\ pedidosEstado[us[c].orderId] = COMPLETADO
        /\ statusHistoryStacks[us[c].orderId] = <<>>

\* C5: the entity's history is never empty and its last entry carries the
\* current status; the history never shrinks, and a successful cambiarEstado
\* appends exactly one entry, carrying the new status.
C5_HistoryTracksStatus ==
    /\ [](/\ Len(ent.historial_estados) >= 1
          /\ Last(ent.historial_estados).estado = ent.estado)
    /\ [][/\ Len(ent'.historial_estados) >= Len(ent.historial_estados)
          /\ (entOp'.op = "cambiarEstado" /\ ~entOp'.threw)
                => /\ Len(ent'.historial_estados) = Len(ent.historial_estados) + 1
                   /\ Last(ent'.historial_estados).estado = entOp'.req
          /\ (entOp'.op = "cambiarEstado" /\ entOp'.threw) => ent' = ent]_vars

\* Two successful transitions after construction.
C5_Witness ==
    /\ ent.estado = COMPLETADO
    /\ Len(ent.historial_estados) = 3
    /\ ent.historial_estados[1].estado = PROCESANDO
    /\ ent.historial_estados[2].estado = ENVIADO
    /\ ~entOp.threw

\* A cart that validation must refuse against the index idx: some line names
\* a product that is not in it or asks for more than its stock.
CartRefused(idx, items) ==
    \E i \in 1 .. Len(items) :
        \/ items[i].producto_id \notin DOMAIN idx
        \/ items[i].cantidad > idx[items[i].producto_id].stock

ValidationErrors == {"Producto no encontrado", "Stock insuficiente"}

RowsOf(c) ==
    {r \in pedidos : r.id = c} \cup {r \in detalle_pedidos : r.pedido_id = c}

TasksOf(c) == {i \in 1 .. Len(emailQueue) : emailQueue[i].orderId = c}

\* C6: a checkout whose cart fails validation (a product absent from the
\* index, or a quantity above the indexed stock) returns a failure, and none
\* of its steps creates an order or line-item row, changes a stock count of
\* the index or of the store, or changes the queue.
C6_ValidationFailureHasNoEffect ==
    /\ [](\A c \in CheckoutCalls :
            co[c].error \in ValidationErrors
                => /\ co[c].pc \in {"rollback", "done"}
                   /\ co[c].pc = "done" => ~co[c].success
                   /\ RowsOf(c) = {}
                   /\ txn[c] = EmptyTxn
                   /\ TasksOf(c) = {})
    /\ [][\A c \in CheckoutCalls :
            /\ (co[c].pc = "idle" /\ co'[c] # co[c]
                    /\ CartRefused(index, co'[c].productos))
                  => co'[c].error \in ValidationErrors
            /\ (co'[c] # co[c] /\ co'[c].error \in ValidationErrors)
                  => /\ index' = index
                     /\ productosRows' = productosRows
                     /\ pedidos' = pedidos
                     /\ detalle_pedidos' = detalle_pedidos
                     /\ emailQueue' = emailQueue]_vars

\* 5 units of a product with stock 3: the call has failed, the stock is still
\* 3 in the index and in the store, there is no row and no task.
C6_Witness ==
    \E c \in CheckoutCalls :
        /\ co[c].pc = "done" /\ ~co[c].success
        /\ co[c].error = "Stock insuficiente"
        /\ co[c].productos = <<Line("p1", 5)>>
        /\ index["p1"].stock = 3 /\ productosRows["p1"].stock = 3
        /\ pedidos = {} /\ detalle_pedidos = {} /\ emailQueue = <<>>

PersistStages == {"insert_order", "insert_line", "commit"}

\* C7: a checkout whose order insert, line-item insert or commit fails goes to
\* the rollback and returns a failure; no row of it is ever visible and none
\* of its steps changes the index, the stock or the queue.  The index and the
\* queue are changed only by a call whose order is committed.
C7_PersistFailureRollsBack ==
    /\ [](\A c \in CheckoutCalls :
            co[c].error \in PersistStages
                => /\ co[c].pc \in {"rollback", "done"}
                   /\ co[c].pc = "done" => (~co[c].success /\ txn[c] = EmptyTxn)
                   /\ RowsOf(c) = {}
                   /\ TasksOf(c) = {})
    /\ [][/\ \A c \in CheckoutCalls :
                (co'[c] # co[c] /\ co'[c].error \in PersistStages)
                    => /\ index' = index
                       /\ productosRows' = productosRows
                       /\ pedidos' = pedidos
                       /\ detalle_pedidos' = detalle_pedidos
                       /\ emailQueue' = emailQueue
          /\ (boot = "listening" /\ (index' # index \/ emailQueue' # emailQueue))
                => \E c \in CheckoutCalls :
                      /\ co'[c] # co[c]
                      /\ \E r \in pedidos : r.id = c]_vars

\* A line-item insert of a two-line cart failed after the order row and the
\* first line were written in the transaction; the call has returned its
\* failure and nothing of it is left.
C7_Witness ==
    \E c \in CheckoutCalls :
        /\ co[c].pc = "done" /\ ~co[c].success
        /\ co[c].error = "insert_line"
        /\ Len(co[c].productos) = 2
        /\ RowsOf(c) = {} /\ txn[c] = EmptyTxn
        /\ index = Catalog /\ emailQueue = <<>>

\* C8: a checkout that has returned success has pushed exactly one task for
\* its order onto the queue, and one that has returned failure none.
C8_OneTaskPerSuccessfulCheckout ==
    \A c \in CheckoutCalls :
        co[c].pc = "done"
            => Cardinality(TasksOf(c)) = (IF co[c].success THEN 1 ELSE 0)

\* C9: on every discount list the rule engine produces for a subtotal >= 0,
\* the fold returns an amount >= 0.
C9_FoldNeverNegative ==
    (fIn.source = "engine" /\ RNonNeg(fIn.subtotal)) => RNonNeg(fOut)

\* The fold as a left fold by position: the amount after the first k discounts.
RECURSIVE AmountAfter(_, _, _)
AmountAfter(subtotal, discounts, k) ==
    IF k = 0 THEN subtotal
    ELSE LET a == AmountAfter(subtotal, discounts, k - 1)
             d == discounts[k]
         IN  IF d.type = Percentage
             THEN RSub(a, RDiv(RMul(a, Rat(d.value)), Rat(100)))
             ELSE RSub(a, Rat(d.value))

\* C10: the fold equals the left fold over the list in the given order, a
\* percentage taken of the running amount and a fixed value subtracted from
\* it; the empty list returns the subtotal.
C10_FoldIsLeftFold ==
    fIn.source # None
        => /\ fOut = AmountAfter(fIn.subtotal, fIn.discounts, Len(fIn.discounts))
           /\ fIn.discounts = <<>> => fOut = fIn.subtotal

\* 600000 less 10% is 540000, less 5% of that is 513000 (not 510000), less the
\* fixed 10000 is 503000.
C10_Witness ==
    /\ fIn.subtotal = Rat(600000)
    /\ fIn.discounts = <<Bienvenida, CompraMayor, LunesDescuento>>
    /\ fOut = Rat(503000)

\* The sum of quantity times unit price over the first k lines of a cart, the
\* prices read from the index idx.
RECURSIVE SumAtIndex(_, _, _)
SumAtIndex(idx, items, k) ==
    IF k = 0 THEN Rat(0)
    ELSE RAdd(SumAtIndex(idx, items, k - 1),
              RMul(Rat(items[k].cantidad), parseFloat(idx[items[k].producto_id].precio)))

\* C11: the step that validates a cart captures, for every line, the unit
\* price the index holds at that moment, and the subtotal is the sum of
\* quantity times that price; neither changes afterwards, whatever happens to
\* the index, and every persisted line item carries the captured price.
C11_SubtotalFromCapturedPrices ==
    /\ [][\A c \in SoloCalls :
            /\ (co[c].pc = "idle" /\ co'[c].pc = "discounts")
                 => /\ Len(co'[c].productosConDetalles) = Len(co'[c].productos)
                    /\ \A i \in 1 .. Len(co'[c].productos) :
                          /\ co'[c].productosConDetalles[i].cantidad =
                                 co'[c].productos[i].cantidad
                          /\ co'[c].productosConDetalles[i].precio =
                                 parseFloat(index[co'[c].productos[i].producto_id].precio)
                    /\ co'[c].subtotal =
                           SumAtIndex(index, co'[c].productos, Len(co'[c].productos))
            /\ co[c].pc # "idle"
                 => /\ co'[c].productosConDetalles = co[c].productosConDetalles
                    /\ co'[c].subtotal = co[c].subtotal]_vars
    /\ [](\A c \in SoloCalls : \A r \in detalle_pedidos :
            r.pedido_id = c
                => /\ r.producto_id = co[c].productosConDetalles[r.n].producto_id
                   /\ r.cantidad = co[c].productosConDetalles[r.n].cantidad
                   /\ parseFloat(r.precio_unitario) = co[c].productosConDetalles[r.n].precio)

\* A checkout of 2 units captured at 100000 has succeeded with subtotal 200000
\* and its line item at 100000.00, while the index now prices the product at
\* 250000.
C11_Witness ==
    \E c \in SoloCalls :
        /\ co[c].pc = "done" /\ co[c].success
        /\ co[c].productos = <<Line("p1", 2)>>
        /\ co[c].subtotal = Rat(200000)
        /\ index["p1"].precio = 25000000
        /\ \E r \in detalle_pedidos : r.pedido_id = c /\ r.precio_unitario = 10000000

\* C12: for every checkout that has returned success, the total is the fold
\* of the subtotal over the discounts plus the shipping cost, and the order
\* row holds exactly the subtotal, shipping cost and total of the result.
C12_ResultMatchesPersistedOrder ==
    \A c \in SoloCalls :
        (co[c].pc = "done" /\ co[c].success)
            => /\ co[c].total =
                      RAdd(applyDiscountsRecursive(co[c].subtotal, co[c].descuentos),
                           Rat(co[c].costo_envio))
               /\ \E r \in pedidos :
                      /\ r.id = c
                      /\ parseFloat(r.subtotal) = co[c].subtotal
                      /\ parseFloat(r.costo_envio) = Rat(co[c].costo_envio)
                      /\ parseFloat(r.total) = co[c].total

\* C13: every row of pedidos has a total greater than zero.
C13_PersistedTotalPositive ==
    \A r \in pedidos : r.total > 0

\* The scenario of C14 for call c: 2 units of the product priced 100000 (stock
\* 10 at start-up), standard shipping, not on a Monday, no other call started
\* and no order of the customer in the store before this one.
FirstPurchaseScenario(c) ==
    /\ co[c].productos = <<Line("p1", 2)>>
    /\ co[c].metodo_envio = "standard"
    /\ clockDay # 1
    /\ \A b \in CheckoutCalls : b # c => co[b].pc = "idle"
    /\ \A r \in pedidos : r.id = c

\* C14: in that scenario the cart passes validation and, unless the store
\* rejects a statement, the checkout returns success with subtotal 200000,
\* discounted subtotal 180000, shipping 5000 and total 185000, persists its
\* order, and the inventory update leaves the index stock at 8.
C14_FirstPurchaseScenario ==
    /\ [](\A c \in SoloCalls :
            FirstPurchaseScenario(c)
                => /\ co[c].error \notin ValidationErrors \cup {"shipping"}
                   /\ (co[c].pc \in {"commit", "inventory", "done"} /\ co[c].error = None)
                        => /\ co[c].subtotal = Rat(200000)
                           /\ RSub(co[c].subtotal, co[c].total_descuentos) = Rat(180000)
                           /\ co[c].costo_envio = 5000
                           /\ co[c].total = Rat(185000)
                   /\ (co[c].pc = "done" /\ co[c].error = None)
                        => /\ co[c].success
                           /\ \E r \in pedidos : r.id = c /\ r.total = 18500000)
    /\ [][\A c \in SoloCalls :
            (FirstPurchaseScenario(c) /\ co[c].pc = "inventory" /\ co'[c].pc = "done"
                /\ index' # index)
                => index'["p1"].stock = 8]_vars

\* The scenario has run to its end: success, total 185000, index stock 8.
C14_Witness ==
    \E c \in SoloCalls :
        /\ FirstPurchaseScenario(c)
        /\ co[c].pc = "done" /\ co[c].success
        /\ co[c].subtotal = Rat(200000) /\ co[c].total = Rat(185000)
        /\ index["p1"].stock = 8 /\ index["p1"].precio = 10000000

\* C15: a reduceStock call on an absent product or for more than the stock
\* returns false and leaves the index as it was; any other call returns true
\* and subtracts exactly the quantity from that product and from no other;
\* no stock is ever negative.
C15_ReduceStockChecksThenSubtracts ==
    /\ [](\A p \in DOMAIN stockIndex : stockIndex[p].stock >= 0)
    /\ [][LET call == reduceLog'[Len(reduceLog')]
              p == call.productId
          IN  Len(reduceLog') = Len(reduceLog) + 1
                => IF p \notin DOMAIN stockIndex \/ stockIndex[p].stock < call.quantity
                   THEN ~call.ok /\ stockIndex' = stockIndex
                   ELSE /\ call.ok
                        /\ stockIndex'[p].stock = stockIndex[p].stock - call.quantity
                        /\ \A o \in DOMAIN stockIndex \ {p} : stockIndex'[o] = stockIndex[o]
                        /\ DOMAIN stockIndex' = DOMAIN stockIndex]_vars

\* With stock 3: 2 units are taken, 2 more are refused, 1 is taken.
C15_Witness ==
    /\ stockIndex0["pa"].stock = 3
    /\ reduceLog = <<[productId |-> "pa", quantity |-> 2, ok |-> TRUE],
                     [productId |-> "pa", quantity |-> 2, ok |-> FALSE],
                     [productId |-> "pa", quantity |-> 1, ok |-> TRUE]>>
    /\ stockIndex["pa"].stock = 0
    /\ stockIndex["pb"] = stockIndex0["pb"]

\* C16: when all the calls made are on one product with one quantity q and
\* together ask for more than the stock s it started with, exactly s \div q
\* of them have succeeded, the others have failed, and the stock left is
\* s - q * (s \div q) >= 0.
C16_ConcurrentDecrementsExhaustStock ==
    \A p \in IndexProducts, q \in 1 .. MaxReduceQty :
        LET n == Len(reduceLog)
            s == stockIndex0[p].stock
            won == {i \in 1 .. n : reduceLog[i].ok}
        IN  (/\ n >= 2
             /\ \A i \in 1 .. n : reduceLog[i].productId = p /\ reduceLog[i].quantity = q
             /\ n * q > s)
                => /\ Cardinality(won) = s \div q
                   /\ Cardinality((1 .. n) \ won) = n - (s \div q)
                   /\ stockIndex[p].stock = s - q * (s \div q)
                   /\ stockIndex[p].stock >= 0

\* Three calls for 1 unit each on a stock of 2: two succeed, one fails.
C16_Witness ==
    /\ stockIndex0["pa"].stock = 2
    /\ Len(reduceLog) = 3
    /\ \A i \in 1 .. 3 : reduceLog[i].productId = "pa" /\ reduceLog[i].quantity = 1
    /\ Cardinality({i \in 1 .. 3 : reduceLog[i].ok}) = 2
    /\ stockIndex["pa"].stock = 0

\* The key of the cache whose last get hit or set is the oldest.
LeastRecentlyAccessed == Head(lruAccessed)

\* The step is a set of a key that the cache does not hold.
SetOfNewKey ==
    /\ lruOp' # lruOp
    /\ lruOp'[2].kind = "set"
    /\ lruOp'[2].key \notin KeysOf(lruCache)

\* C17: the cache never holds more keys than its capacity; when it holds
\* as many and a new key is set, the entry removed is the one whose last
\* get hit or set is the oldest, every other entry stays with its value, and
\* the new entry is there.
C17_SetEvictsLeastRecentlyAccessed ==
    /\ [](Cardinality(KeysOf(lruCache)) = Len(lruCache) /\ Len(lruCache) <= LruCapacity)
    /\ [][(SetOfNewKey /\ Len(lruCache) = LruCapacity)
            => LET old == {lruCache[i] : i \in 1 .. Len(lruCache)}
                   new == {lruCache'[i] : i \in 1 .. Len(lruCache')}
                   put == [key |-> lruOp'[2].key, value |-> lruOp'[2].value]
               IN  /\ LeastRecentlyAccessed \notin KeysOf(lruCache')
                   /\ new = ({e \in old : e.key # LeastRecentlyAccessed} \cup {put})]_vars

\* Keys 1 and 2 are held, 2 set after 1; 1 is read; 3 is set: 2 is gone.
C17_Witness ==
    /\ lruOp[1].kind = "get" /\ lruOp[1].key = 1 /\ lruOp[1].result # None
    /\ lruOp[2].kind = "set" /\ lruOp[2].key = 3 /\ lruOp[2].held = {1, 2}
    /\ Cardinality(lruOp[2].held) = LruCapacity
    /\ lruAccessed = <<1, 3>>
    /\ KeysOf(lruCache) = {1, 3}

\* C18: a get of a key that is held returns its value, moves its entry to
\* the position of the most recently used one and keeps every entry and the
\* order of the others, so that a set of a new key made next keeps the key
\* as long as another key is held; a get of a key that is not held returns
\* nothing and leaves the entries and their order as they were.
C18_GetPromotesHitAndIgnoresMiss ==
    /\ [][(lruOp' # lruOp /\ lruOp'[2].kind = "get")
            => LET k == lruOp'[2].key
               IN  IF k \in KeysOf(lruCache)
                   THEN /\ \E i \in 1 .. Len(lruCache) :
                              /\ lruCache[i].key = k
                              /\ lruOp'[2].result = lruCache[i].value
                              /\ lruCache'[Len(lruCache')] = lruCache[i]
                        /\ Len(lruCache') = Len(lruCache)
                        /\ Without(lruCache', k) = Without(lruCache, k)
                   ELSE /\ lruOp'[2].result = None
                        /\ lruCache' = lruCache]_vars
    /\ [][(/\ SetOfNewKey
           /\ lruOp[2].kind = "get" /\ lruOp[2].result # None
           /\ Len(lruCache) >= 2)
            => lruOp[2].key \in KeysOf(lruCache')]_vars

\* Keys 1 and 2 were held when key 1 was read with its value "v2"; the set
\* of key 3 that followed on the full cache kept key 1 and its value.
C18_Witness ==
    /\ lruOp[1].kind = "get" /\ lruOp[1].key = 1 /\ lruOp[1].held = {1, 2}
    /\ lruOp[1].result = "v2"
    /\ lruOp[2].kind = "set" /\ lruOp[2].key = 3 /\ lruOp[2].value = "v1"
    /\ lruCache = <<[key |-> 1, value |-> "v2"], [key |-> 3, value |-> "v1"]>>

\* C19: a getById call made when every other call has returned, one of them
\* a successful updateStatus of the order, returns the status that was
\* committed when it was made (or the one committed now, when an update was
\* committed during the call).
C19_LaterGetReturnsCommittedStatus ==
    \A g \in GetCalls :
        (gb[g].pc = "done" /\ gb[g].success /\ gb[g].afterUpdate)
            => gb[g].estado \in {gb[g].committed, pedidosEstado[gb[g].orderId]}

\* C20: at most one drain run is in progress, and isProcessing is set exactly
\* while it is; a tick that finds a run in progress leaves the queue, the run
\* and the flag as they are; a run begins only in a tick that found no run in
\* progress, so a skipped tick starts nothing later.
C20_OneDrainRunTicksSkipped ==
    /\ [](Len(sending) <= 1 /\ (isProcessing <=> Len(sending) = 1))
    /\ [][lastStep' = "skipped"
            => isProcessing /\ UNCHANGED <<workerQueue, sending, isProcessing, enqueued>>]_vars
    /\ [][Len(sending') > Len(sending)
            => ~isProcessing /\ lastStep' = "started"]_vars
    /\ [][(isProcessing /\ workerQueue' # workerQueue /\ Len(workerQueue') < Len(workerQueue))
            => lastStep' = "next"]_vars

\* A tick has just been skipped while a run delivers task 1 and tasks 2 and 3
\* wait in the queue.
C20_Witness ==
    /\ lastStep = "skipped"
    /\ isProcessing
    /\ Len(sending) = 1 /\ sending[1].id = 1
    /\ Len(workerQueue) = 2

\* C21: when a delivery has just failed, the run it belongs to is still in
\* progress with the next task, unless no task was left.
C21_FailedDeliveryRunContinues ==
    lastStep = "failed" => (Len(workerQueue) = 0 \/ (isProcessing /\ Len(sending) = 1))

QueuedIds == {workerQueue[i].id : i \in 1 .. Len(workerQueue)}
SendingIds == {sending[i].id : i \in 1 .. Len(sending)}

\* C22: a task leaves the queue only into a delivery; under the fairness of
\* SpecWorkerFair every task in the queue eventually leaves it, and a set
\* isProcessing is eventually cleared, also when the run ends with an error.
C22_EveryTaskEventuallyDelivered ==
    /\ [][\A k \in QueuedIds : k \notin QueuedIds' => k \in SendingIds']_vars
    /\ \A k \in 1 .. MaxEmailTasks : (k \in QueuedIds) ~> (k \notin QueuedIds /\ enqueued >= k)
    /\ isProcessing ~> ~isProcessing
    /\ [][lastStep' = "failed" => ~isProcessing']_vars

\* A run has ended with an error, the flag is clear and a task waits.
C22_Witness ==
    /\ lastStep = "failed"
    /\ ~isProcessing
    /\ Len(sending) = 0
    /\ Len(workerQueue) >= 1

\* C23: when the stock UPDATE of the inventory handler is rejected for a line
\* (the step leaves the product rows as they are), the call ends at once
\* with the success result, and the committed order and its lines stay.
C23_InventoryFailureKeepsOrderAndSuccess ==
    [][\A c \in SoloCalls :
         (co[c].pc = "inventory" /\ co'[c] # co[c] /\ productosRows' = productosRows)
            => /\ co'[c].pc = "done" /\ co'[c].success /\ co'[c].error = None
               /\ pedidos' = pedidos /\ detalle_pedidos' = detalle_pedidos
               /\ \E r \in pedidos' : r.id = c
               /\ \E d \in detalle_pedidos' : d.pedido_id = c]_vars

\* The call for one unit each of p1 and p3 returned success with its order
\* stored; the stock of p1 was reduced and that of p3 was not.
C23_Witness ==
    \E c \in SoloCalls :
        /\ co[c].pc = "done" /\ co[c].success
        /\ Len(co[c].productos) = 2
        /\ \E r \in pedidos : r.id = c
        /\ productosRows["p1"].stock = SoloCatalog["p1"].stock - 1
        /\ productosRows["p3"].stock = SoloCatalog["p3"].stock

\* C24: after a successful ProductService.update or create of a product, the
\* index holds a record of the product with the stock and the price of its
\* row in productos.
C24_IndexFollowsAdminEdit ==
    (adminOp.success /\ adminOp.kind \in {"update", "create"})
        => /\ adminOp.id \in DOMAIN index
           /\ index[adminOp.id].stock = productosRows[adminOp.id].stock
           /\ index[adminOp.id].precio = productosRows[adminOp.id].precio

\* The call is by a customer, not an administrator, for a stored order of
\* another customer.
Stranger(g) ==
    /\ gb[g].pc # "idle"
    /\ gb[g].orderId \in StoredOrders
    /\ ~gb[g].isAdmin
    /\ gb[g].userId # OrderOwner[gb[g].orderId]

EntriesOf(cache) == {cache[i] : i \in 1 .. Len(cache)}

\* C25: a getById call by a customer for another customer's order never
\* returns the order: it ends with the permission error (or with the error
\* of the store when a SELECT is rejected), from the cache as from the store;
\* its steps leave the entries of the cache and the rows of pedidos as they
\* were.
C25_StrangerRefusedWithoutMutation ==
    /\ [](\A g \in GetCalls :
            (Stranger(g) /\ gb[g].pc = "done")
                => /\ ~gb[g].success /\ gb[g].estado = None
                   /\ gb[g].error \in {"forbidden", "db_error"})
    /\ [][\A g \in GetCalls :
            (Stranger(g) /\ gb'[g] # gb[g])
                => /\ EntriesOf(orderCache') = EntriesOf(orderCache)
                   /\ pedidosEstado' = pedidosEstado
                   /\ (gb'[g].pc = "done" /\ gb'[g].error = "db_error")
                        => gb[g].pc \in {"select", "details"}]_vars

\* The owner's call filled the cache; the call of another customer that
\* followed was refused from the cache, which still holds the entry.
C25_Witness ==
    /\ gb[1].pc = "done" /\ gb[1].success /\ gb[1].userId = "u1"
    /\ gb[2].pc = "done" /\ gb[2].userId = "u2" /\ ~gb[2].isAdmin
    /\ gb[2].orderId = "o1" /\ gb[2].error = "forbidden" /\ gb[2].row = None
    /\ KeysOf(orderCache) = {"o1"}

\* C26: calculateCost of a cart with at least one line returns 5000 for
\* standard, 15000 for express and 0 for pickup, whatever the lines are; for
\* a cart without lines it throws, for each of the three.
C26_ShippingCostDependsOnModeOnly ==
    Len(shipOut) = 1
        => IF Len(shipIn.items) = 0
           THEN shipOut[1].threw
           ELSE /\ ~shipOut[1].threw
                /\ shipIn.strategy = "standard" => shipOut[1].cost = 5000
                /\ shipIn.strategy = "express" => shipOut[1].cost = 15000
                /\ shipIn.strategy = "pickup" => shipOut[1].cost = 0

\* Express for two lines of different products, quantities and prices.
C26_Witness ==
    /\ Len(shipOut) = 1
    /\ shipIn.strategy = "express"
    /\ Len(shipIn.items) = 2
    /\ shipIn.items[1].producto_id # shipIn.items[2].producto_id
    /\ shipIn.items[1].cantidad # shipIn.items[2].cantidad
    /\ shipIn.items[1].precio # shipIn.items[2].precio
    /\ ~shipOut[1].threw /\ shipOut[1].cost = 15000

\* The call asks for a mode that is none of standard, express, pickup.
UnknownMode(c) ==
    /\ co[c].pc # "idle"
    /\ co[c].metodo_envio \notin {"standard", "express", "pickup"}

\* C27: the factory throws for a mode that is none of the three; a checkout
\* asking for such a mode ends with the failure result, has no order or line
\* row and no task in the queue, and none of its steps changes a stock of the
\* index or of the store.
C27_UnknownModeFailsWithoutEffect ==
    /\ [](\A c \in SoloCalls :
            UnknownMode(c)
                => /\ ShippingStrategyFactoryCreate(co[c].metodo_envio).threw
                   /\ RowsOf(c) = {}
                   /\ TasksOf(c) = {}
                   /\ txn[c] = EmptyTxn
                   /\ co[c].pc \in {"discounts", "rollback", "done"}
                   /\ co[c].pc = "done" => ~co[c].success /\ co[c].error = "shipping")
    /\ [][\A c \in SoloCalls :
            (UnknownMode(c) /\ co'[c] # co[c])
                => /\ index' = index /\ productosRows' = productosRows
                   /\ pedidos' = pedidos /\ detalle_pedidos' = detalle_pedidos
                   /\ emailQueue' = emailQueue]_vars

\* The call for one unit of p1 by drone has returned the failure.
C27_Witness ==
    \E c \in SoloCalls :
        /\ co[c].metodo_envio = "drone"
        /\ co[c].pc = "done" /\ ~co[c].success /\ co[c].error = "shipping"
        /\ pedidos = {} /\ emailQueue = <<>>
        /\ index = SoloCatalog

\* C28: a request without products is refused by the controller; handed to
\* process it is refused as well (calculateCost throws on the empty list):
\* it ends with the failure result and no row.  Every row of pedidos has at
\* least one row of detalle_pedidos.
C28_EmptyCartCreatesNoOrder ==
    /\ \A data \in SoloRequests : Len(data.productos) = 0 => ~controllerAccepts(data)
    /\ \A c \in SoloCalls :
          (co[c].pc # "idle" /\ Len(co[c].productos) = 0)
              => /\ RowsOf(c) = {}
                 /\ txn[c] = EmptyTxn
                 /\ co[c].pc = "done" => ~co[c].success /\ co[c].error = "shipping"
    /\ \A r \in pedidos : \E d \in detalle_pedidos : d.pedido_id = r.id

\* The call without products has returned the failure; nothing is stored.
C28_Witness ==
    \E c \in SoloCalls :
        /\ co[c].productos = <<>> /\ co[c].metodo_envio = "standard"
        /\ co[c].pc = "done" /\ ~co[c].success /\ co[c].error = "shipping"
        /\ pedidos = {} /\ detalle_pedidos = {}

\* C29: a set of a key that is held, on a cache of any size up to its
\* capacity, leaves the number of entries and the keys as they were, gives
\* the key the new value and the position of the most recently used entry,
\* and leaves the other entries and their order as they were.
C29_SetOfHeldKeyReplacesAndPromotes ==
    [][(lruOp' # lruOp /\ lruOp'[2].kind = "set" /\ lruOp'[2].key \in KeysOf(lruCache))
        => /\ Len(lruCache') = Len(lruCache)
           /\ KeysOf(lruCache') = KeysOf(lruCache)
           /\ lruCache'[Len(lruCache')] = [key |-> lruOp'[2].key, value |-> lruOp'[2].value]
           /\ Without(lruCache', lruOp'[2].key) = Without(lruCache, lruOp'[2].key)]_vars

\* On the full cache key 1, the older entry, read with value "v1", has been
\* set to "v2": both keys are held and key 1 is the newer entry.
C29_Witness ==
    /\ lruOp[1].kind = "get" /\ lruOp[1].key = 2 /\ lruOp[1].held = {1, 2}
    /\ lruOp[2].kind = "set" /\ lruOp[2].key = 1 /\ lruOp[2].value = "v2"
    /\ Cardinality(lruOp[2].held) = LruCapacity
    /\ lruCache = <<[key |-> 2, value |-> "v1"], [key |-> 1, value |-> "v2"]>>

\* C30: the queue holds, oldest first, the tasks enqueued and not yet
\* dequeued, and its size is the enqueue calls minus the dequeue calls that
\* gave a task; a dequeue on a queue with tasks gives the oldest of them and
\* removes it alone; a dequeue on an empty queue gives nothing and leaves the
\* queue empty; size and isEmpty report the number of tasks held.
C30_QueueIsFifo ==
    /\ [](/\ Len(queueItems) = pushes - pops
          /\ \A i \in 1 .. Len(queueItems) : queueItems[i].id = pops + i)
    /\ [][(queueOp'.kind = "dequeue" /\ <<queueItems, queueOp>>' # <<queueItems, queueOp>>)
            => IF Len(queueItems) = 0
               THEN queueOp'.result = <<>> /\ queueItems' = <<>> /\ pops' = pops
               ELSE /\ queueOp'.result = <<queueItems[1]>>
                    /\ queueOp'.result[1].id = pops + 1
                    /\ queueItems' = SubSeq(queueItems, 2, Len(queueItems))
                    /\ pops' = pops + 1]_vars
    /\ [](queueOp.kind = "size"
            => queueOp.result = <<pushes - pops, pushes = pops>>)

\* Three tasks were enqueued; the second dequeue has just given task 2 and
\* task 3 is left.
C30_Witness ==
    /\ pushes = 3 /\ pops = 2
    /\ queueOp.kind = "dequeue"
    /\ Len(queueOp.result) = 1 /\ queueOp.result[1].id = 2
    /\ Len(queueItems) = 1 /\ queueItems[1].id = 3

\* C31: validateStock answers false for a product absent from the index and
\* otherwise true exactly when the indexed stock is at least the quantity
\* asked for; the index after the call is the index before it.
C31_ValidateStockReadsOnly ==
    stockQuery # <<>>
        => LET q == stockQuery[1]
           IN  /\ q.productId \notin DOMAIN stockIndex0 => ~q.result
               /\ q.productId \in DOMAIN stockIndex0
                    => (q.result <=> stockIndex0[q.productId].stock >= q.quantity)
               /\ stockIndex = stockIndex0

\* A stock of 2 asked for exactly 2 units: the answer is true.
C31_Witness ==
    /\ stockIndex0["pa"].stock = 2
    /\ stockQuery = <<[productId |-> "pa", quantity |-> 2, result |-> TRUE]>>
    /\ stockIndex = stockIndex0

\* C32: when a build call resolves, the index holds exactly the rows of
\* productos, each with the stock and price of its row, whatever it held
\* before, and the number returned is the number of rows; when the call
\* fails, the index is what it was.
C32_BuildReplacesIndexFromStore ==
    [][buildOp'.n = buildOp.n + 1
         => IF buildOp'.ok
            THEN /\ DOMAIN index' = DOMAIN productosRows'
                 /\ \A p \in DOMAIN index' :
                       /\ index'[p].stock = productosRows'[p].stock
                       /\ index'[p].precio = productosRows'[p].precio
                 /\ buildOp'.size = Cardinality(DOMAIN productosRows')
            ELSE index' = index]_vars

\* A second build has resolved on a store with an edited stock, a deleted
\* row and a new row; the index built at start-up held p1 with stock 3 and p2.
C32_Witness ==
    /\ buildOp = [n |-> 2, ok |-> TRUE, size |-> 2]
    /\ adminOp.kind \in {"update", "create", "delete"} /\ adminOp.success
    /\ DOMAIN index = {"p1", NewProduct}
    /\ index["p1"].stock = 0
    /\ index = productosRows

\* C33: while no updateStatus call is under way, the history returned for a
\* stored order starts with the entry of procesando without an admin, and
\* its last entry carries the status of the order's row.
C33_HistoryStartsAtProcessingEndsAtCurrent ==
    \A o \in StoredOrders :
        (\A c \in UpdateCalls : us[c].pc \in {"idle", "done"})
            => LET h == getStatusHistory(statusHistoryStacks, o)
               IN  /\ Len(h) >= 1
                   /\ h[1].estado = PROCESANDO
                   /\ h[1].admin_id = None
                   /\ h[Len(h)].estado = pedidosEstado[o]

\* C34: whenever a checkout is about to be priced, some order count, day and
\* cart make getAutomaticDiscounts return the five discounts together.
C34_AllFiveRulesCoOccur ==
    fIn.source = None
        => \E orderCount \in 0 .. MaxOrderCount, today \in Days, productos \in FoldCarts :
              getAutomaticDiscounts(orderCount, calculateSubtotal(productos), today, productos)
                  = <<Bienvenida, CompraMayor, LunesDescuento, CompraVolumen, ClienteFrecuente>>

\* C35: a call that fails for an unknown product or for insufficient stock
\* has opened no transaction.
C35_StockFailureBeforeTransaction ==
    \A c \in SoloCalls : co[c].error \in ValidationErrors => ~co[c].began

\* C36: a call that has returned a failure has no committed order row.
C36_FailureLeavesNoOrder ==
    \A c \in SoloCalls : (co[c].pc = "done" /\ ~co[c].success) => RowsOf(c) = {}

\* The units of a product over a set of line rows.
RECURSIVE SumUnits(_, _)
SumUnits(rows, p) ==
    IF rows = {} THEN 0
    ELSE LET r == CHOOSE x \in rows : TRUE
         IN  (IF r.producto_id = p THEN r.cantidad ELSE 0) + SumUnits(rows \ {r}, p)

\* C37: for every product, the units over the lines of all committed orders
\* never exceed the stock the index was loaded with.
C37_NoOversell ==
    \A p \in DOMAIN Catalog : SumUnits(detalle_pedidos, p) <= Catalog[p].stock

\* The sum of the valor fields of an itemized list.
RECURSIVE SumValor(_)
SumValor(list) ==
    IF list = <<>> THEN Rat(0) ELSE RAdd(Head(list).valor, SumValor(Tail(list)))

\* C38: in the success response of a created order the itemized discount
\* values add up to total_descuentos, and subtotal minus that sum plus the
\* shipping cost is the total.
C38_ItemizedDiscountsAddUp ==
    \A c \in SoloCalls :
        (co[c].pc = "done" /\ co[c].success)
            => LET sum == SumValor(itemizedDiscounts(co[c].subtotal, co[c].descuentos))
               IN  /\ sum = co[c].total_descuentos
                   /\ RAdd(RSub(co[c].subtotal, sum), Rat(co[c].costo_envio)) = co[c].total

\* C40: a call whose cart has a line with a quantity of zero or less ends in
\* a failure without an order row, and no stock of the index or of the store
\* is ever above the stock it started with.
C40_NonPositiveQuantityRejected ==
    /\ \A c \in SoloCalls :
          (/\ co[c].pc = "done"
           /\ \E i \in 1 .. Len(co[c].productos) : co[c].productos[i].cantidad <= 0)
              => ~co[c].success /\ RowsOf(c) = {}
    /\ \A p \in DOMAIN SoloCatalog :
          /\ productosRows[p].stock <= SoloCatalog[p].stock
          /\ p \in DOMAIN index => index[p].stock <= SoloCatalog[p].stock

\* C39: in no state are all the connections of the pool held by checkout
\* calls that each wait for a further connection.
C39_NoCallWaitsForeverForConnection ==
    ~(/\ poolFree = 0
      /\ \A c \in PoolCalls :
            Holds(poolPc[c]) > 0 => poolPc[c] \in {"wait_discounts", "wait_inventory"})

====
